---- MODULE Spec2Model ----
(***************************************************************************)
(* Model of the background-check bot (src/main.py): the policy store with  *)
(* its four rule tables, the connection bootstrap (ensure_db), the three   *)
(* store helpers (db_exec / db_fetch / db_fetchrow), the four              *)
(* configuration commands and the /bgcheck command with its flagging loop. *)
(*                                                                         *)
(* Conventions.  Python's None is the string None for text fields and      *)
(* NoInt for integer fields.  Text values (labels, reasons, names) are     *)
(* opaque tokens; safe_text / fmt_date / chunk_lines only shape the        *)
(* rendered message and are not modelled.  A database row is a record, a   *)
(* table is the set of its rows.  Each command handler is one action; the  *)
(* database server going down or coming back is an action of the           *)
(* environment.                                                            *)
(***************************************************************************)
EXTENDS Integers, Sequences, FiniteSets, TLC

\* ------------------------------------------------------------------------
\* Bounds and input domains
\* ------------------------------------------------------------------------

\* Largest number of rows the four tables hold together.
MaxRows == 2
\* Largest `retries` a call of http_get / http_post is given.
MaxRetries == 4
\* Largest limit_pages a call of _inv_fetch_asset_type is given.
MaxPages == 4

None == "None"
NoInt == 0 - 1

\* The groups and the ranks of the memberships the membership service reports.
Groups == {1, 2}
Ranks == {1, 2}

\* Who issues a command and what now() returns while it runs.
Stamp0 == [user_id |-> 7, t |-> 0]
Stamp1 == [user_id |-> 8, t |-> 1]

VARIABLES
    DATABASE_URL,       \* TRUE iff the environment variable is set (line 17)
    storeUp,            \* TRUE iff the database server accepts connections
    db_pool,            \* the global pool: None or the name of a pool (line 25)
    watched_groups,     \* table watched_groups
    blacklisted_ranks,  \* table blacklisted_ranks
    blacklisted_users,  \* table blacklisted_users
    ranklocks,          \* table ranklocks
    last,               \* the most recent event: handler, inputs, store call, reply
    run,                \* the locals of the most recent /bgcheck run
    task,               \* the frame of a coroutine that runs step by step
                        \* (under SpecPool: one frame for each coroutine)
    est,                \* the frame of compute_value_estimate
    inv,                \* the frame of _inv_fetch_asset_type
    http,               \* the frame of http_get / http_post
    calls,              \* the requests issued so far, in the order of their issue
    emitted             \* the percentages passed to progress_cb so far

tables == <<watched_groups, blacklisted_ranks, blacklisted_users, ranklocks>>
\* The frames of the functions that are followed step by step.
frames == <<task, est, inv, http, calls, emitted>>
vars == <<DATABASE_URL, storeUp, db_pool, watched_groups, blacklisted_ranks,
          blacklisted_users, ranklocks, last, run, task, est, inv, http, calls, emitted>>

\* ------------------------------------------------------------------------
\* Python helpers
\* ------------------------------------------------------------------------

\* bool(x) of a text value: None and the empty string are falsy.
Truthy(s) == s # None /\ s # ""

\* `x or None`
OrNone(s) == IF Truthy(s) THEN s ELSE None

\* `x or y`
OrElse(s, d) == IF Truthy(s) THEN s ELSE d

\* ------------------------------------------------------------------------
\* The tables: primary keys and the SQL statements of the commands
\* ------------------------------------------------------------------------

WatchKey(r) == <<r.guild_id, r.group_id>>
BlRankKey(r) == <<r.guild_id, r.group_id, r.rank_id>>
BlUserKey(r) == <<r.guild_id, r.roblox_user_id>>
RankLockKey(r) == <<r.guild_id, r.roblox_user_id, r.group_id>>

TotalRows == Cardinality(watched_groups) + Cardinality(blacklisted_ranks)
             + Cardinality(blacklisted_users) + Cardinality(ranklocks)

\* insert ... on conflict (guild_id, group_id) do update set label=excluded.label
UpsertWatched(tbl, new) ==
    IF \E r \in tbl : WatchKey(r) = WatchKey(new)
    THEN {IF WatchKey(r) = WatchKey(new)
          THEN [r EXCEPT !.label = new.label] ELSE r : r \in tbl}
    ELSE tbl \cup {new}

\* insert ... on conflict (guild_id, group_id, rank_id) do update set
\* reason=excluded.reason, added_by=excluded.added_by, added_at=now()
UpsertBlRank(tbl, new) ==
    IF \E r \in tbl : BlRankKey(r) = BlRankKey(new)
    THEN {IF BlRankKey(r) = BlRankKey(new)
          THEN [r EXCEPT !.reason = new.reason, !.added_by = new.added_by,
                         !.added_at = new.added_at]
          ELSE r : r \in tbl}
    ELSE tbl \cup {new}

\* insert ... on conflict (guild_id, roblox_user_id) do update set
\* reason=excluded.reason, added_by=excluded.added_by, added_at=now()
UpsertBlUser(tbl, new) ==
    IF \E r \in tbl : BlUserKey(r) = BlUserKey(new)
    THEN {IF BlUserKey(r) = BlUserKey(new)
          THEN [r EXCEPT !.reason = new.reason, !.added_by = new.added_by,
                         !.added_at = new.added_at]
          ELSE r : r \in tbl}
    ELSE tbl \cup {new}

\* An insert without its "on conflict" clause and without the primary key.
UpsertRankLockAddsRow(tbl, new) == tbl \cup {new}

\* insert ... on conflict (guild_id, roblox_user_id, group_id) do update set
\* max_rank_id=excluded.max_rank_id, reason=excluded.reason,
\* set_by=excluded.set_by, set_at=now()
UpsertRankLock(tbl, new) ==
    IF \E r \in tbl : RankLockKey(r) = RankLockKey(new)
    THEN {IF RankLockKey(r) = RankLockKey(new)
          THEN [r EXCEPT !.max_rank_id = new.max_rank_id, !.reason = new.reason,
                         !.set_by = new.set_by, !.set_at = new.set_at]
          ELSE r : r \in tbl}
    ELSE tbl \cup {new}

\* delete from watched_groups where guild_id=$1 and group_id=$2
DeleteWatched(tbl, guild, group) ==
    {r \in tbl : ~(r.guild_id = guild /\ r.group_id = group)}

\* delete from blacklisted_ranks where guild_id=$1 and group_id=$2 and rank_id=$3
DeleteBlRank(tbl, guild, group, rank) ==
    {r \in tbl : ~(r.guild_id = guild /\ r.group_id = group /\ r.rank_id = rank)}

\* delete from blacklisted_users where guild_id=$1 and roblox_user_id=$2
DeleteBlUser(tbl, guild, rid) ==
    {r \in tbl : ~(r.guild_id = guild /\ r.roblox_user_id = rid)}

\* delete from ranklocks where guild_id=$1 and roblox_user_id=$2 and group_id=$3
DeleteRankLock(tbl, guild, rid, group) ==
    {r \in tbl : ~(r.guild_id = guild /\ r.roblox_user_id = rid /\ r.group_id = group)}

\* select ... from watched_groups where guild_id=$1
SelectWatched(tbl, guild) == {r \in tbl : r.guild_id = guild}

\* select ... from blacklisted_ranks where guild_id=$1
SelectBlRanks(tbl, guild) == {r \in tbl : r.guild_id = guild}

\* select ... from blacklisted_users where guild_id=$1 and roblox_user_id=$2
SelectBlUser(tbl, guild, rid) ==
    {r \in tbl : r.guild_id = guild /\ r.roblox_user_id = rid}

\* select ... from ranklocks where guild_id=$1 and roblox_user_id=$2
SelectRankLocks(tbl, guild, rid) ==
    {r \in tbl : r.guild_id = guild /\ r.roblox_user_id = rid}

\* ------------------------------------------------------------------------
\* ensure_db and the store helpers
\* ------------------------------------------------------------------------

\* ensure_db(): the value returned and the pool it leaves in db_pool.
\* connect_ok: create_pool succeeds; tables_ok: CREATE_TABLES_SQL succeeds.
EnsureDb(pool, url, connect_ok, tables_ok) ==
    IF pool # None THEN [ret |-> TRUE, pool |-> pool]
    ELSE IF ~url THEN [ret |-> FALSE, pool |-> None]
    ELSE IF ~connect_ok THEN [ret |-> FALSE, pool |-> None]
    ELSE IF ~tables_ok THEN [ret |-> FALSE, pool |-> None]
    ELSE [ret |-> TRUE, pool |-> "pool"]

\* What a store helper hands to its caller.  kind "raised": the exception of
\* pool.acquire() / con.execute() leaves the helper, which has no handler of
\* its own (the same calls are wrapped in try/except inside ensure_db only).
Raised == [kind |-> "raised", rows |-> {}]

\* db_exec(sql, *args); hit: the rows of the table the statement finds under
\* its key (the row an upsert replaces, the row a delete removes)
DbExec(ensured, up, hit) ==
    IF ~ensured THEN [kind |-> "None", rows |-> {}]
    ELSE IF ~up THEN Raised
    ELSE [kind |-> "status", rows |-> hit]

\* db_fetch without its "if not await ensure_db(): return []".
DbFetchUnguarded(ensured, up, rows) ==
    IF ~ensured \/ ~up THEN Raised ELSE [kind |-> "list", rows |-> rows]

\* db_fetch(sql, *args); rows: what the select returns
DbFetch(ensured, up, rows) ==
    IF ~ensured THEN [kind |-> "list", rows |-> {}]
    ELSE IF ~up THEN Raised
    ELSE [kind |-> "list", rows |-> rows]

\* db_fetchrow(sql, *args); rows: what the select matches (at most one row)
DbFetchrow(ensured, up, rows) ==
    IF ~ensured THEN [kind |-> "None", rows |-> {}]
    ELSE IF ~up THEN Raised
    ELSE IF rows = {} THEN [kind |-> "None", rows |-> {}]
    ELSE [kind |-> "row", rows |-> rows]

NoCall == [op |-> "none", ensured |-> FALSE, res |-> [kind |-> "None", rows |-> {}]]
NoRun == [outcome |-> "none"]

\* The reply of a handler: a message and the rows it renders.
Reply(msg) == [msg |-> msg, rows |-> {}]
ReplyRows(msg, rows) == [msg |-> msg, rows |-> rows]
\* An exception left the handler: nothing is sent.
Unhandled == Reply("exception")

Event(ev, req, call, reply) ==
    [ev |-> ev, req |-> req, call |-> call, reply |-> reply]

\* No handler is running.
IdleEvent == Event("idle", [perm |-> TRUE], NoCall, Reply(""))
Idle == last.ev = "idle"

\* ------------------------------------------------------------------------
\* Initial state
\* ------------------------------------------------------------------------

\* No function is being followed step by step.
NoTask == [pc |-> "idle"]
NoEst == [pc |-> "idle"]
NoInv == [pc |-> "idle"]
NoHttp == [pc |-> "idle"]

NoFrames ==
    /\ task = NoTask
    /\ est = NoEst
    /\ inv = NoInv
    /\ http = NoHttp
    /\ calls = <<>>
    /\ emitted = <<>>

\* The environment, the pool and the tables at the start of the process.
InitStore ==
    /\ DATABASE_URL \in BOOLEAN
    /\ storeUp \in BOOLEAN
    /\ db_pool = None
    /\ watched_groups = {}
    /\ blacklisted_ranks = {}
    /\ blacklisted_users = {}
    /\ ranklocks = {}
    /\ last = IdleEvent
    /\ run = NoRun

Init == InitStore /\ NoFrames

\* ------------------------------------------------------------------------
\* Environment
\* ------------------------------------------------------------------------

\* The database server stops accepting connections / comes back.
StoreDown ==
    /\ Idle
    /\ storeUp
    /\ storeUp' = FALSE
    /\ UNCHANGED <<DATABASE_URL, db_pool, tables, last, run, frames>>

StoreBack ==
    /\ Idle
    /\ ~storeUp
    /\ storeUp' = TRUE
    /\ UNCHANGED <<DATABASE_URL, db_pool, tables, last, run, frames>>

\* The process is started again: the module's globals are initialised anew
\* (db_pool = None) while the database keeps its rows.
Restart ==
    /\ Idle
    /\ db_pool # None
    /\ db_pool' = None
    /\ UNCHANGED <<DATABASE_URL, storeUp, tables, last, run, frames>>

\* The handler has returned: its interaction is over and its locals are gone.
Return ==
    /\ ~Idle
    /\ last' = IdleEvent
    /\ run' = NoRun
    /\ UNCHANGED <<DATABASE_URL, storeUp, db_pool, tables, frames>>

\* on_ready(): ensure_db() at startup
OnReady(tables_ok) ==
    LET e == EnsureDb(db_pool, DATABASE_URL, storeUp, tables_ok) IN
    /\ db_pool' = e.pool
    /\ last' = Event("on_ready", [perm |-> TRUE],
                     [op |-> "ensure", ensured |-> e.ret,
                      res |-> [kind |-> "None", rows |-> {}]], Reply(""))
    /\ run' = NoRun
    /\ UNCHANGED <<DATABASE_URL, storeUp, tables>>

\* ------------------------------------------------------------------------
\* Configuration commands
\* ------------------------------------------------------------------------

\* A handler that returns before it reaches the store.
Respond(ev, req, reply) ==
    /\ last' = Event(ev, req, NoCall, reply)
    /\ run' = NoRun
    /\ UNCHANGED <<DATABASE_URL, storeUp, db_pool, tables>>

\* The handler made one store call with result res: the event it leaves.
\* An exception of the call leaves the handler before it replies.
Called(ev, req, op, e, res, reply) ==
    Event(ev, req, [op |-> op, ensured |-> e.ret, res |-> res],
          IF res.kind = "raised" THEN Unhandled ELSE reply)

\* A new row fits the bound of the model.
Fits(n_before, n_after) == n_after <= n_before \/ TotalRows < MaxRows

\* /watchgroup action:<add|remove|list> group_id label
Watchgroup(req, tables_ok) ==
    LET e == EnsureDb(db_pool, DATABASE_URL, storeUp, tables_ok)
        gid == req.guild_id
    IN
    IF ~req.perm THEN Respond("watchgroup", req, Reply("no_permission"))
    ELSE IF req.action = "add" THEN
        IF req.group_id = NoInt THEN Respond("watchgroup", req, Reply("usage"))
        ELSE
            LET new == [guild_id |-> gid, group_id |-> req.group_id, label |-> req.label]
                res == DbExec(e.ret, storeUp,
                              {r \in watched_groups : WatchKey(r) = WatchKey(new)})
                tbl == IF res.kind = "status"
                       THEN UpsertWatched(watched_groups, new) ELSE watched_groups
            IN
            /\ Fits(Cardinality(watched_groups), Cardinality(tbl))
            /\ watched_groups' = tbl
            /\ db_pool' = e.pool
            /\ last' = Called("watchgroup", req, "exec", e, res, Reply("watch_added"))
            /\ run' = NoRun
            /\ UNCHANGED <<DATABASE_URL, storeUp, blacklisted_ranks,
                           blacklisted_users, ranklocks>>
    ELSE IF req.action = "remove" THEN
        IF req.group_id = NoInt THEN Respond("watchgroup", req, Reply("usage"))
        ELSE
            LET res == DbExec(e.ret, storeUp,
                              watched_groups \ DeleteWatched(watched_groups, gid, req.group_id))
            IN
            /\ watched_groups' = IF res.kind = "status"
                                 THEN DeleteWatched(watched_groups, gid, req.group_id)
                                 ELSE watched_groups
            /\ db_pool' = e.pool
            /\ last' = Called("watchgroup", req, "exec", e, res, Reply("watch_removed"))
            /\ run' = NoRun
            /\ UNCHANGED <<DATABASE_URL, storeUp, blacklisted_ranks,
                           blacklisted_users, ranklocks>>
    ELSE IF req.action = "list" THEN
        LET res == DbFetch(e.ret, storeUp, SelectWatched(watched_groups, gid))
            shown == {[group_id |-> r.group_id, label |-> OrElse(r.label, "no label")]
                      : r \in res.rows}
        IN
        /\ db_pool' = e.pool
        /\ last' = Called("watchgroup", req, "fetch", e, res,
                          IF res.rows = {} THEN Reply("none_set")
                          ELSE ReplyRows("list", shown))
        /\ run' = NoRun
        /\ UNCHANGED <<DATABASE_URL, storeUp, tables>>
    ELSE Respond("watchgroup", req, Reply("actions"))

\* /blacklistrank action:<add|remove|list> group_id rank_id reason
Blacklistrank(req, tables_ok) ==
    LET e == EnsureDb(db_pool, DATABASE_URL, storeUp, tables_ok)
        gid == req.guild_id
    IN
    IF ~req.perm THEN Respond("blacklistrank", req, Reply("no_permission"))
    ELSE IF req.action = "add" THEN
        IF req.group_id = NoInt \/ req.rank_id = NoInt
        THEN Respond("blacklistrank", req, Reply("usage"))
        ELSE
            LET new == [guild_id |-> gid, group_id |-> req.group_id,
                        rank_id |-> req.rank_id, reason |-> req.reason,
                        added_by |-> req.stamp.user_id, added_at |-> req.stamp.t]
                res == DbExec(e.ret, storeUp,
                              {r \in blacklisted_ranks : BlRankKey(r) = BlRankKey(new)})
                tbl == IF res.kind = "status"
                       THEN UpsertBlRank(blacklisted_ranks, new) ELSE blacklisted_ranks
            IN
            /\ Fits(Cardinality(blacklisted_ranks), Cardinality(tbl))
            /\ blacklisted_ranks' = tbl
            /\ db_pool' = e.pool
            /\ last' = Called("blacklistrank", req, "exec", e, res, Reply("blrank_added"))
            /\ run' = NoRun
            /\ UNCHANGED <<DATABASE_URL, storeUp, watched_groups,
                           blacklisted_users, ranklocks>>
    ELSE IF req.action = "remove" THEN
        IF req.group_id = NoInt \/ req.rank_id = NoInt
        THEN Respond("blacklistrank", req, Reply("usage"))
        ELSE
            LET res == DbExec(e.ret, storeUp,
                              blacklisted_ranks
                              \ DeleteBlRank(blacklisted_ranks, gid, req.group_id, req.rank_id))
            IN
            /\ blacklisted_ranks' =
                   IF res.kind = "status"
                   THEN DeleteBlRank(blacklisted_ranks, gid, req.group_id, req.rank_id)
                   ELSE blacklisted_ranks
            /\ db_pool' = e.pool
            /\ last' = Called("blacklistrank", req, "exec", e, res, Reply("blrank_removed"))
            /\ run' = NoRun
            /\ UNCHANGED <<DATABASE_URL, storeUp, watched_groups,
                           blacklisted_users, ranklocks>>
    ELSE IF req.action = "list" THEN
        LET res == DbFetch(e.ret, storeUp, SelectBlRanks(blacklisted_ranks, gid))
            shown == {[group_id |-> r.group_id, rank_id |-> r.rank_id,
                       reason |-> OrElse(r.reason, "no reason")] : r \in res.rows}
        IN
        /\ db_pool' = e.pool
        /\ last' = Called("blacklistrank", req, "fetch", e, res,
                          IF res.rows = {} THEN Reply("none_set")
                          ELSE ReplyRows("list", shown))
        /\ run' = NoRun
        /\ UNCHANGED <<DATABASE_URL, storeUp, tables>>
    ELSE Respond("blacklistrank", req, Reply("actions"))

\* /blacklistuser action:<add|remove|check> roblox_id reason
Blacklistuser(req, tables_ok) ==
    LET e == EnsureDb(db_pool, DATABASE_URL, storeUp, tables_ok)
        gid == req.guild_id
        rid == req.roblox_id
    IN
    IF ~req.perm THEN Respond("blacklistuser", req, Reply("no_permission"))
    ELSE IF req.action = "add" THEN
        IF ~Truthy(req.reason) THEN Respond("blacklistuser", req, Reply("usage"))
        ELSE
            LET new == [guild_id |-> gid, roblox_user_id |-> rid, reason |-> req.reason,
                        added_by |-> req.stamp.user_id, added_at |-> req.stamp.t]
                res == DbExec(e.ret, storeUp,
                              {r \in blacklisted_users : BlUserKey(r) = BlUserKey(new)})
                tbl == IF res.kind = "status"
                       THEN UpsertBlUser(blacklisted_users, new) ELSE blacklisted_users
            IN
            /\ Fits(Cardinality(blacklisted_users), Cardinality(tbl))
            /\ blacklisted_users' = tbl
            /\ db_pool' = e.pool
            /\ last' = Called("blacklistuser", req, "exec", e, res, Reply("bluser_added"))
            /\ run' = NoRun
            /\ UNCHANGED <<DATABASE_URL, storeUp, watched_groups,
                           blacklisted_ranks, ranklocks>>
    ELSE IF req.action = "remove" THEN
        LET res == DbExec(e.ret, storeUp,
                          blacklisted_users \ DeleteBlUser(blacklisted_users, gid, rid))
        IN
        /\ blacklisted_users' = IF res.kind = "status"
                                THEN DeleteBlUser(blacklisted_users, gid, rid)
                                ELSE blacklisted_users
        /\ db_pool' = e.pool
        /\ last' = Called("blacklistuser", req, "exec", e, res, Reply("bluser_removed"))
        /\ run' = NoRun
        /\ UNCHANGED <<DATABASE_URL, storeUp, watched_groups,
                       blacklisted_ranks, ranklocks>>
    ELSE IF req.action = "check" THEN
        LET res == DbFetchrow(e.ret, storeUp, SelectBlUser(blacklisted_users, gid, rid))
            shown == {[reason |-> r.reason, added_at |-> r.added_at] : r \in res.rows}
        IN
        /\ db_pool' = e.pool
        /\ last' = Called("blacklistuser", req, "fetchrow", e, res,
                          IF res.kind # "row" THEN Reply("not_blacklisted")
                          ELSE ReplyRows("blacklisted", shown))
        /\ run' = NoRun
        /\ UNCHANGED <<DATABASE_URL, storeUp, tables>>
    ELSE Respond("blacklistuser", req, Reply("actions"))

\* /ranklock action:<set|remove|view> roblox_id group_id max_rank_id reason
Ranklock(req, tables_ok) ==
    LET e == EnsureDb(db_pool, DATABASE_URL, storeUp, tables_ok)
        guild_id == req.guild_id
        rid == req.roblox_id
    IN
    IF ~req.perm THEN Respond("ranklock", req, Reply("no_permission"))
    ELSE IF req.action = "set" THEN
        IF req.group_id = NoInt \/ req.max_rank_id = NoInt \/ ~Truthy(req.reason)
        THEN Respond("ranklock", req, Reply("usage"))
        ELSE
            LET new == [guild_id |-> guild_id, roblox_user_id |-> rid,
                        group_id |-> req.group_id, max_rank_id |-> req.max_rank_id,
                        reason |-> req.reason,
                        set_by |-> req.stamp.user_id, set_at |-> req.stamp.t]
                res == DbExec(e.ret, storeUp,
                              {r \in ranklocks : RankLockKey(r) = RankLockKey(new)})
                tbl == IF res.kind = "status"
                       THEN UpsertRankLock(ranklocks, new) ELSE ranklocks
            IN
            /\ Fits(Cardinality(ranklocks), Cardinality(tbl))
            /\ ranklocks' = tbl
            /\ db_pool' = e.pool
            /\ last' = Called("ranklock", req, "exec", e, res, Reply("ranklock_set"))
            /\ run' = NoRun
            /\ UNCHANGED <<DATABASE_URL, storeUp, watched_groups,
                           blacklisted_ranks, blacklisted_users>>
    ELSE IF req.action = "remove" THEN
        IF req.group_id = NoInt THEN Respond("ranklock", req, Reply("usage"))
        ELSE
            LET res == DbExec(e.ret, storeUp,
                              ranklocks \ DeleteRankLock(ranklocks, guild_id, rid, req.group_id))
            IN
            /\ ranklocks' = IF res.kind = "status"
                            THEN DeleteRankLock(ranklocks, guild_id, rid, req.group_id)
                            ELSE ranklocks
            /\ db_pool' = e.pool
            /\ last' = Called("ranklock", req, "exec", e, res, Reply("ranklock_removed"))
            /\ run' = NoRun
            /\ UNCHANGED <<DATABASE_URL, storeUp, watched_groups,
                           blacklisted_ranks, blacklisted_users>>
    ELSE IF req.action = "view" THEN
        LET res == DbFetch(e.ret, storeUp, SelectRankLocks(ranklocks, guild_id, rid))
            shown == {[group_id |-> r.group_id, max_rank_id |-> r.max_rank_id,
                       set_at |-> r.set_at, reason |-> r.reason] : r \in res.rows}
        IN
        /\ db_pool' = e.pool
        /\ last' = Called("ranklock", req, "fetch", e, res,
                          IF res.rows = {} THEN Reply("none_found")
                          ELSE ReplyRows("list", shown))
        /\ run' = NoRun
        /\ UNCHANGED <<DATABASE_URL, storeUp, tables>>
    ELSE Respond("ranklock", req, Reply("actions"))

\* ------------------------------------------------------------------------
\* /bgcheck: data fetched from the platform
\* ------------------------------------------------------------------------

\* Names the membership service reports (group.name, role.name).
GroupName(g) == IF g = 1 THEN "Zeta" ELSE IF g = 2 THEN "alpha" ELSE "Beta"
RoleName(rank) == IF rank = 1 THEN "Member" ELSE "Officer"

\* Position of (name or "").lower() in the order of Python strings.
LowerOrd(name) ==
    IF ~Truthy(name) THEN 0
    ELSE IF name = "alpha" THEN 1
    ELSE IF name = "Beta" THEN 2
    ELSE 3

\* One entry of the membership service's "data" list.
Membership(g, rank) ==
    [group |-> [id |-> g, name |-> GroupName(g)],
     role |-> [rank |-> rank, name |-> RoleName(rank)]]

\* The lists the membership service may return: one role per group.
RECURSIVE MembershipLists(_)
MembershipLists(gs) ==
    {<<>>} \cup
    UNION {{<<Membership(g, k)>> \o rest : k \in Ranks, rest \in MembershipLists(gs \ {g})}
           : g \in gs}

\* sorted(groups, key=...): stable insertion by the lower-cased group name.
RECURSIVE InsertSorted(_, _)
InsertSorted(sorted, m) ==
    IF sorted = <<>> THEN <<m>>
    ELSE IF LowerOrd(m.group.name) < LowerOrd(Head(sorted).group.name)
    THEN <<m>> \o sorted
    ELSE <<Head(sorted)>> \o InsertSorted(Tail(sorted), m)

RECURSIVE SortedGroups(_)
SortedGroups(groups) ==
    IF groups = <<>> THEN <<>>
    ELSE InsertSorted(SortedGroups(SubSeq(groups, 1, Len(groups) - 1)),
                      groups[Len(groups)])

\* ------------------------------------------------------------------------
\* /bgcheck: rule maps and the flagging loop
\* ------------------------------------------------------------------------

\* watched_map = {group_id: label or None}
WatchedMap(rows) ==
    [g \in {r.group_id : r \in rows} |->
        OrNone((CHOOSE r \in rows : r.group_id = g).label)]

\* blrank_map = {(group_id, rank_id): reason or None}
BlrankMap(rows) ==
    [k \in {<<r.group_id, r.rank_id>> : r \in rows} |->
        OrNone((CHOOSE r \in rows : <<r.group_id, r.rank_id>> = k).reason)]

\* ranklock_map = {group_id: row}
RanklockMap(rows) ==
    [g \in {r.group_id : r \in rows} |-> CHOOSE r \in rows : r.group_id = g]

EmptyMap == [k \in {} |-> None]

\* dict.get(key) of a map with text values
MapGet(m, k) == IF k \in DOMAIN m THEN m[k] ELSE None

\* is_blacklisted_rank = bl_reason is not None
IsBlacklistedRank(bl_reason) == bl_reason # None

\* A cap that a rank equal to it already exceeds.
RlFlagAtCap(rank_id, max_rank) == rank_id >= max_rank

\* rl_flag = rank_id > max_rank
RlFlag(rank_id, max_rank) == rank_id > max_rank

\* should_show = show_all or is_watched or is_blacklisted_rank or rl_flag
ShouldShow(show_all, is_watched, is_blacklisted_rank, rl_flag) ==
    show_all \/ is_watched \/ is_blacklisted_rank \/ rl_flag

NoRlTxt == [present |-> FALSE, max_rank |-> NoInt, status |-> "", set_at |-> NoInt]

\* rl_txt = " | RL max **M** (exceeds | ok) set <date>"
RlTxt(rl, rl_flag) ==
    [present |-> TRUE, max_rank |-> rl.max_rank_id,
     status |-> IF rl_flag THEN "exceeds" ELSE "ok", set_at |-> rl.set_at]

\* icon and extra of a displayed membership (the if / elif chain)
Marking(is_blacklisted_rank, rl_flag, bl_reason) ==
    IF is_blacklisted_rank
    THEN [icon |-> "blacklist", extra |-> "BLACKLIST",
          reason |-> OrElse(bl_reason, "rule hit"), flagged |-> 1]
    ELSE IF rl_flag
    THEN [icon |-> "warning", extra |-> "RANKLOCK EXCEEDED", reason |-> None, flagged |-> 1]
    ELSE [icon |-> "ok", extra |-> "", reason |-> None, flagged |-> 0]

\* The locals of one iteration of the loop over groups_sorted.
Iteration(g, show_all, watched_map, blrank_map, ranklock_map) ==
    LET gid == g.group.id
        rank_id == g.role.rank
        is_watched == gid \in DOMAIN watched_map
        bl_reason == MapGet(blrank_map, <<gid, rank_id>>)
        is_blacklisted_rank == IsBlacklistedRank(bl_reason)
        has_rl == gid \in DOMAIN ranklock_map
        rl_flag == IF has_rl THEN RlFlag(rank_id, ranklock_map[gid].max_rank_id) ELSE FALSE
        rl_txt == IF has_rl THEN RlTxt(ranklock_map[gid], rl_flag) ELSE NoRlTxt
        mark == Marking(is_blacklisted_rank, rl_flag, bl_reason)
    IN
    [gid |-> gid, rank_id |-> rank_id,
     is_watched |-> is_watched, is_blacklisted_rank |-> is_blacklisted_rank,
     rl_flag |-> rl_flag,
     should_show |-> ShouldShow(show_all, is_watched, is_blacklisted_rank, rl_flag),
     flagged |-> mark.flagged,
     line |-> [icon |-> mark.icon,
               display_name |-> OrElse(MapGet(watched_map, gid), g.group.name),
               gid |-> gid, rank_id |-> rank_id, role_name |-> g.role.name,
               extra |-> mark.extra, reason |-> mark.reason, rl_txt |-> rl_txt]]

\* for g in groups_sorted: ... ; st carries lines, watched_count, flagged_count
\* and, per membership, the flags the iteration computed.
RECURSIVE GroupsLoop(_, _, _, _, _, _, _)
GroupsLoop(gs, i, show_all, watched_map, blrank_map, ranklock_map, st) ==
    IF i > Len(gs) THEN st
    ELSE
        LET it == Iteration(gs[i], show_all, watched_map, blrank_map, ranklock_map)
            counted == [st EXCEPT
                          !.watched_count = IF it.is_watched THEN @ + 1 ELSE @,
                          !.flags = Append(@, [gid |-> it.gid, rank_id |-> it.rank_id,
                                               is_watched |-> it.is_watched,
                                               is_blacklisted_rank |-> it.is_blacklisted_rank,
                                               rl_flag |-> it.rl_flag])]
        IN
        IF ~it.should_show
        THEN GroupsLoop(gs, i + 1, show_all, watched_map, blrank_map, ranklock_map, counted)
        ELSE GroupsLoop(gs, i + 1, show_all, watched_map, blrank_map, ranklock_map,
                        [counted EXCEPT !.flagged_count = @ + it.flagged,
                                        !.lines = Append(@, it.line)])

LoopStart == [lines |-> <<>>, watched_count |-> 0, flagged_count |-> 0, flags |-> <<>>]

\* "No watched/flagged groups matched. ..."
NoticeLine ==
    [icon |-> "notice", display_name |-> None, gid |-> NoInt, rank_id |-> NoInt,
     role_name |-> None, extra |-> "", reason |-> None, rl_txt |-> NoRlTxt]

\* Notes whose blacklisted-user note is an elif of the account-age notes.
NotesElif(age_days, user_blacklist) ==
    IF age_days < 7 THEN <<[kind |-> "very_new", reason |-> None, since |-> NoInt]>>
    ELSE IF age_days < 30 THEN <<[kind |-> "newish", reason |-> None, since |-> NoInt]>>
    ELSE IF user_blacklist.kind = "row"
    THEN LET row == CHOOSE r \in user_blacklist.rows : TRUE IN
         <<[kind |-> "blacklisted_user", reason |-> row.reason, since |-> row.added_at]>>
    ELSE <<>>

\* notes: the account-age note and the blacklisted-user note
Notes(age_days, user_blacklist) ==
    (IF age_days < 7 THEN <<[kind |-> "very_new", reason |-> None, since |-> NoInt]>>
     ELSE IF age_days < 30 THEN <<[kind |-> "newish", reason |-> None, since |-> NoInt]>>
     ELSE <<>>)
    \o
    (IF user_blacklist.kind = "row"
     THEN LET row == CHOOSE r \in user_blacklist.rows : TRUE IN
          <<[kind |-> "blacklisted_user", reason |-> row.reason, since |-> row.added_at]>>
     ELSE <<>>)

\* ------------------------------------------------------------------------
\* /bgcheck
\* ------------------------------------------------------------------------

\* A chain that goes on with whatever the lookup returned.
ResolveTargetUnchecked(req, rover, name_lookup) ==
    IF req.discord_user # NoInt THEN [ok |-> TRUE, target |-> rover, msg |-> ""]
    ELSE IF req.roblox_id # NoInt THEN [ok |-> TRUE, target |-> req.roblox_id, msg |-> ""]
    ELSE IF Truthy(req.username) THEN [ok |-> TRUE, target |-> name_lookup, msg |-> ""]
    ELSE [ok |-> FALSE, target |-> NoInt, msg |-> "provide_one"]

\* "Resolve Roblox ID": the if / elif chain over the three identity inputs.
\* rover / name_lookup: what discord_to_roblox / username_to_roblox return.
ResolveTarget(req, rover, name_lookup) ==
    IF req.discord_user # NoInt
    THEN IF rover = NoInt \/ rover = 0
         THEN [ok |-> FALSE, target |-> NoInt, msg |-> "not_verified"]
         ELSE [ok |-> TRUE, target |-> rover, msg |-> ""]
    ELSE IF req.roblox_id # NoInt
    THEN [ok |-> TRUE, target |-> req.roblox_id, msg |-> ""]
    ELSE IF Truthy(req.username)
    THEN IF name_lookup = NoInt \/ name_lookup = 0
         THEN [ok |-> FALSE, target |-> NoInt, msg |-> "name_not_found"]
         ELSE [ok |-> TRUE, target |-> name_lookup, msg |-> ""]
    ELSE [ok |-> FALSE, target |-> NoInt, msg |-> "provide_one"]

\* What compute_value_estimate returns, by the way it ended.
ValueEstimate(ending) ==
    IF ending = "private"
    THEN [inventory_private |-> TRUE, priced_assets |-> 0, est_value_robux |-> NoInt]
    ELSE IF ending = "priced"
    THEN [inventory_private |-> FALSE, priced_assets |-> 1, est_value_robux |-> 100]
    ELSE [inventory_private |-> FALSE, priced_assets |-> 0, est_value_robux |-> NoInt]

\* "Load rules": the four selects of a run whose ensure_db() returned True.
\* Each helper calls ensure_db() again and then queries the pool.
LoadRules(db_ok, pool, url, up, tables_ok, guild_id, target) ==
    LET ens == EnsureDb(pool, url, up, tables_ok).ret IN
    IF ~db_ok
    THEN [raised |-> FALSE, watched_map |-> EmptyMap, blrank_map |-> EmptyMap,
          user_blacklist |-> [kind |-> "None", rows |-> {}], ranklock_map |-> EmptyMap]
    ELSE
        LET watched == DbFetch(ens, up, SelectWatched(watched_groups, guild_id))
            bl_rows == DbFetch(ens, up, SelectBlRanks(blacklisted_ranks, guild_id))
            user_blacklist == DbFetchrow(ens, up,
                                  SelectBlUser(blacklisted_users, guild_id, target))
            rls == DbFetch(ens, up, SelectRankLocks(ranklocks, guild_id, target))
        IN
        [raised |-> \E c \in {watched, bl_rows, user_blacklist, rls} : c.kind = "raised",
         watched_map |-> WatchedMap(watched.rows),
         blrank_map |-> BlrankMap(bl_rows.rows),
         user_blacklist |-> user_blacklist,
         ranklock_map |-> RanklockMap(rls.rows)]

\* The run from "Groups display logic" to the embed.
Report(req, db_ok, target, age_days, fetched, groups, rules, value_ending) ==
    LET groups_sorted == SortedGroups(groups)
        notes == Notes(age_days, rules.user_blacklist)
        st == GroupsLoop(groups_sorted, 1, req.show_all, rules.watched_map,
                         rules.blrank_map, rules.ranklock_map, LoopStart)
        lines == IF st.lines = <<>> /\ ~req.show_all THEN <<NoticeLine>> ELSE st.lines
        value_est == IF req.include_value THEN ValueEstimate(value_ending)
                     ELSE ValueEstimate("none")
    IN
    [outcome |-> "report", db_ok |-> db_ok, guild_id |-> req.guild_id,
     target_roblox_id |-> target, fetched |-> fetched, groups_sorted |-> groups_sorted,
     show_all |-> req.show_all, include_value |-> req.include_value,
     flags |-> st.flags, lines |-> lines,
     watched_count |-> st.watched_count, flagged_count |-> st.flagged_count,
     embed |-> [summary |-> [watched |-> st.watched_count, flags |-> st.flagged_count,
                             total |-> Len(groups_sorted)],
                db_status |-> ~db_ok,
                notes |-> notes,
                value |-> value_est,
                groups |-> lines]]

\* A run that ended before the embed: a message to the caller or an exception.
Ended(how, db_ok) == [outcome |-> how, db_ok |-> db_ok]

\* /bgcheck discord_user roblox_id username show_all include_value
\* env: what the platform's services answer during the run.
Bgcheck(req, env) ==
    LET e == EnsureDb(db_pool, DATABASE_URL, storeUp, env.tables_ok)
        db_ok == e.ret
        ident == ResolveTarget(req, env.rover, env.name_lookup)
        \* get_user_groups returns [] when the membership service fails
        groups == IF env.groups_ok THEN env.groups ELSE <<>>
        rules == LoadRules(db_ok, e.pool, DATABASE_URL, storeUp, env.tables_ok,
                           req.guild_id, ident.target)
        call == [op |-> "ensure", ensured |-> db_ok, res |-> [kind |-> "None", rows |-> {}]]
    IN
    /\ db_pool' = e.pool
    /\ UNCHANGED <<DATABASE_URL, storeUp, tables>>
    /\ IF ~ident.ok
       THEN /\ run' = Ended(ident.msg, db_ok)
            /\ last' = Event("bgcheck", req, call, Reply(ident.msg))
       ELSE IF ~env.profile_ok
       THEN \* get_roblox_user raises RuntimeError
            /\ run' = Ended("RuntimeError", db_ok)
            /\ last' = Event("bgcheck", req, call, Unhandled)
       ELSE IF rules.raised
       THEN \* the exception of a select leaves db_fetch / db_fetchrow and the handler
            /\ run' = Ended("StoreError", db_ok)
            /\ last' = Event("bgcheck", req, call, Unhandled)
       ELSE /\ run' = Report(req, db_ok, ident.target, env.age_days,
                             IF env.groups_ok THEN "ok" ELSE "failed",
                             groups, rules, env.value)
            /\ last' = Event("bgcheck", req, call, Reply("embed"))

\* ------------------------------------------------------------------------
\* Inputs of the commands
\* ------------------------------------------------------------------------

\* An input domain: for each tenant (guild) the groups, ranks, subjects,
\* labels and reasons its operators use; for each (tenant, subject) the
\* groups and caps of its rank locks; the stamps of the calls.
\*
\* FlagDom: tenant 1 is the tenant whose checks are observed, with every
\* group and rank; tenant 2 and subject 2 each have one rule of every kind,
\* chosen so that it would match subject 1's memberships in tenant 1.
FlagDom ==
    [guilds |-> {1, 2},
     groups |-> [gd \in {1, 2} |-> IF gd = 1 THEN {1, 2} ELSE {1}],
     ranks |-> [gd \in {1, 2} |-> IF gd = 1 THEN {1, 2} ELSE {2}],
     labels |-> [gd \in {1, 2} |-> IF gd = 1 THEN {None, "VIP"} ELSE {None}],
     reasons |-> [gd \in {1, 2} |-> IF gd = 1 THEN {None, "spam"} ELSE {"spam"}],
     user_reasons |-> {"spam"},
     pairs |-> {<<1, 1>>, <<1, 2>>, <<2, 1>>},
     lock_groups |-> [p \in {<<1, 1>>, <<1, 2>>, <<2, 1>>} |->
                        IF p = <<1, 1>> THEN {1, 2} ELSE {1}],
     max_ranks |-> [p \in {<<1, 1>>, <<1, 2>>, <<2, 1>>} |->
                        IF p = <<1, 1>> THEN {1, 2} ELSE {1}],
     stamps |-> {Stamp0}]

\* StoreDom: one key of every table with all its values and both stamps,
\* and one more key per table for another subject and another tenant.
StoreDom ==
    [guilds |-> {1, 2},
     groups |-> [gd \in {1, 2} |-> {1}],
     ranks |-> [gd \in {1, 2} |-> {1}],
     labels |-> [gd \in {1, 2} |-> IF gd = 1 THEN {None, "VIP"} ELSE {"VIP"}],
     reasons |-> [gd \in {1, 2} |-> IF gd = 1 THEN {None, "spam"} ELSE {"spam"}],
     user_reasons |-> {"spam", "alt"},
     pairs |-> {<<1, 1>>, <<1, 2>>, <<2, 1>>},
     lock_groups |-> [p \in {<<1, 1>>, <<1, 2>>, <<2, 1>>} |-> {1}],
     max_ranks |-> [p \in {<<1, 1>>, <<1, 2>>, <<2, 1>>} |->
                        IF p = <<1, 1>> THEN {1, 2} ELSE {1}],
     stamps |-> {Stamp0, Stamp1}]

\* DownDom: tenant 1 and subject 1 alone, one rule of every kind.
DownDom ==
    [guilds |-> {1},
     groups |-> [gd \in {1} |-> {1}],
     ranks |-> [gd \in {1} |-> {2}],
     labels |-> [gd \in {1} |-> {None}],
     reasons |-> [gd \in {1} |-> {"spam"}],
     user_reasons |-> {"spam"},
     pairs |-> {<<1, 1>>},
     lock_groups |-> [p \in {<<1, 1>>} |-> {1}],
     max_ranks |-> [p \in {<<1, 1>>} |-> {1}],
     stamps |-> {Stamp0}]

WatchReq(perm, guild, action, group, label) ==
    [perm |-> perm, guild_id |-> guild, action |-> action, group_id |-> group,
     label |-> label]

WatchgroupRequests(d) ==
    UNION {{WatchReq(TRUE, gd, "add", g, l) : g \in d.groups[gd], l \in d.labels[gd]}
           \cup {WatchReq(TRUE, gd, "remove", g, None) : g \in d.groups[gd]}
           \cup {WatchReq(TRUE, gd, "list", NoInt, None)}
           : gd \in d.guilds}
    \cup {WatchReq(FALSE, 1, "add", 1, None), WatchReq(TRUE, 1, "add", NoInt, None),
          WatchReq(TRUE, 1, "remove", NoInt, None), WatchReq(TRUE, 1, "help", NoInt, None)}

BlRankReq(perm, guild, action, group, rank, reason, stamp) ==
    [perm |-> perm, guild_id |-> guild, action |-> action, group_id |-> group,
     rank_id |-> rank, reason |-> reason, stamp |-> stamp]

BlacklistrankRequests(d) ==
    UNION {{BlRankReq(TRUE, gd, "add", g, k, rs, st)
                : g \in d.groups[gd], k \in d.ranks[gd], rs \in d.reasons[gd],
                  st \in d.stamps}
           \cup {BlRankReq(TRUE, gd, "remove", g, k, None, Stamp0)
                : g \in d.groups[gd], k \in d.ranks[gd]}
           \cup {BlRankReq(TRUE, gd, "list", NoInt, NoInt, None, Stamp0)}
           : gd \in d.guilds}
    \cup {BlRankReq(FALSE, 1, "add", 1, 1, None, Stamp0),
          BlRankReq(TRUE, 1, "add", 1, NoInt, None, Stamp0),
          BlRankReq(TRUE, 1, "remove", NoInt, 1, None, Stamp0),
          BlRankReq(TRUE, 1, "help", NoInt, NoInt, None, Stamp0)}

BlUserReq(perm, guild, action, rid, reason, stamp) ==
    [perm |-> perm, guild_id |-> guild, action |-> action, roblox_id |-> rid,
     reason |-> reason, stamp |-> stamp]

BlacklistuserRequests(d) ==
    UNION {{BlUserReq(TRUE, p[1], "add", p[2], rs, st)
                : rs \in IF p = <<1, 1>> THEN d.user_reasons ELSE {"spam"},
                  st \in IF p = <<1, 1>> THEN d.stamps ELSE {Stamp0}}
           \cup {BlUserReq(TRUE, p[1], "remove", p[2], None, Stamp0),
                 BlUserReq(TRUE, p[1], "check", p[2], None, Stamp0)}
           : p \in d.pairs}
    \cup {BlUserReq(FALSE, 1, "add", 1, "spam", Stamp0),
          BlUserReq(TRUE, 1, "add", 1, None, Stamp0),
          BlUserReq(TRUE, 1, "help", 1, None, Stamp0)}

RankLockReq(perm, guild, action, rid, group, max_rank, reason, stamp) ==
    [perm |-> perm, guild_id |-> guild, action |-> action, roblox_id |-> rid,
     group_id |-> group, max_rank_id |-> max_rank, reason |-> reason, stamp |-> stamp]

RanklockRequests(d) ==
    UNION {{RankLockReq(TRUE, p[1], "set", p[2], g, m, IF st = Stamp0 THEN "cap" ELSE "demoted", st)
                : g \in d.lock_groups[p], m \in d.max_ranks[p],
                  st \in IF p = <<1, 1>> THEN d.stamps ELSE {Stamp0}}
           \cup {RankLockReq(TRUE, p[1], "remove", p[2], g, NoInt, None, Stamp0)
                : g \in d.lock_groups[p]}
           \cup {RankLockReq(TRUE, p[1], "view", p[2], NoInt, NoInt, None, Stamp0)}
           : p \in d.pairs}
    \cup {RankLockReq(FALSE, 1, "set", 1, 1, 1, "cap", Stamp0),
          RankLockReq(TRUE, 1, "set", 1, 1, NoInt, "cap", Stamp0),
          RankLockReq(TRUE, 1, "set", 1, 1, 1, None, Stamp0),
          RankLockReq(TRUE, 1, "remove", 1, NoInt, NoInt, None, Stamp0),
          RankLockReq(TRUE, 1, "help", 1, NoInt, NoInt, None, Stamp0)}

\* The requests of the configuration commands over a domain.
ConfigRequests(d) ==
    [watchgroup |-> WatchgroupRequests(d), blacklistrank |-> BlacklistrankRequests(d),
     blacklistuser |-> BlacklistuserRequests(d), ranklock |-> RanklockRequests(d)]

FlagRequests == ConfigRequests(FlagDom)
StoreRequests == ConfigRequests(StoreDom)
DownRequests == ConfigRequests(DownDom)

BgReq(discord_user, roblox_id, username, show_all, include_value) ==
    [guild_id |-> 1, discord_user |-> discord_user, roblox_id |-> roblox_id,
     username |-> username, show_all |-> show_all, include_value |-> include_value]

\* Checks of subject 1 by its id, and one request of every other identity form.
BgcheckRequests ==
    {BgReq(NoInt, 1, None, sa, iv) : sa \in BOOLEAN, iv \in BOOLEAN}
    \cup {BgReq(55, NoInt, None, FALSE, FALSE), BgReq(NoInt, NoInt, "builder", FALSE, FALSE),
          BgReq(NoInt, NoInt, None, FALSE, FALSE)}

Ages == {3, 15, 400}
ValueEndings == {"private", "priced", "none"}

\* create_pool is attempted only while there is no pool.
TablesOk == IF db_pool = None THEN BOOLEAN ELSE {TRUE}

BgEnv(rover, name_lookup, profile_ok, age_days, groups_ok, groups, tables_ok, value) ==
    [rover |-> rover, name_lookup |-> name_lookup, profile_ok |-> profile_ok,
     age_days |-> age_days, groups_ok |-> groups_ok, groups |-> groups,
     tables_ok |-> tables_ok, value |-> value]

AllLists == MembershipLists(Groups)

\* A list with one membership in every group, the groups in the order of
\* their ids (which is not the order of their names).
FullList == <<Membership(1, 2), Membership(2, 1)>>
FewLists == {<<>>, FullList}

\* The answers of the services that a run with request req can observe:
\* every list of `lists` for a check by id, without valuation, of an old
\* account; the account ages, the endings of the valuation and the failures
\* of the services with a few lists.
BgcheckEnvs(req, lists) ==
    LET rovers == IF req.discord_user # NoInt THEN {NoInt, 1} ELSE {NoInt}
        lookups == IF req.discord_user = NoInt /\ req.roblox_id = NoInt
                      /\ Truthy(req.username) THEN {NoInt, 1} ELSE {NoInt}
        plain == req.roblox_id # NoInt /\ ~req.include_value
        endings == IF req.include_value THEN ValueEndings ELSE {"none"}
    IN
    {BgEnv(rv, nl, TRUE, 400, TRUE, gs, ok, v)
        : rv \in rovers, nl \in lookups, gs \in IF plain THEN lists ELSE FewLists,
          ok \in TablesOk, v \in endings}
    \cup {BgEnv(rv, nl, TRUE, a, TRUE, FullList, ok, "none")
        : rv \in rovers, nl \in lookups, a \in Ages, ok \in TablesOk}
    \cup {BgEnv(rv, nl, TRUE, 400, FALSE, <<>>, ok, "none")
        : rv \in rovers, nl \in lookups, ok \in TablesOk}
    \cup {BgEnv(rv, nl, FALSE, 400, TRUE, <<>>, ok, "none")
        : rv \in rovers, nl \in lookups, ok \in TablesOk}

\* ------------------------------------------------------------------------
\* Specifications
\* ------------------------------------------------------------------------

\* The handlers, with their requests drawn from rq and the lists of the
\* membership service from lists.
Startup == \E ok \in TablesOk : Idle /\ OnReady(ok) /\ UNCHANGED frames
DoWatchgroup(rq) ==
    \E req \in rq.watchgroup, ok \in TablesOk :
        Idle /\ Watchgroup(req, ok) /\ UNCHANGED frames
DoBlacklistrank(rq) ==
    \E req \in rq.blacklistrank, ok \in TablesOk :
        Idle /\ Blacklistrank(req, ok) /\ UNCHANGED frames
DoBlacklistuser(rq) ==
    \E req \in rq.blacklistuser, ok \in TablesOk :
        Idle /\ Blacklistuser(req, ok) /\ UNCHANGED frames
DoRanklock(rq) ==
    \E req \in rq.ranklock, ok \in TablesOk :
        Idle /\ Ranklock(req, ok) /\ UNCHANGED frames
DoBgcheck(lists) ==
    \E req \in BgcheckRequests : \E env \in BgcheckEnvs(req, lists) :
        Idle /\ Bgcheck(req, env) /\ UNCHANGED frames

\* Spec: the flagging of /bgcheck against every rule set of FlagDom, the
\* database configured and reachable.
InitUp ==
    /\ Init
    /\ DATABASE_URL
    /\ storeUp

Next ==
    \/ Startup
    \/ DoWatchgroup(FlagRequests)
    \/ DoBlacklistrank(FlagRequests)
    \/ DoBlacklistuser(FlagRequests)
    \/ DoRanklock(FlagRequests)
    \/ DoBgcheck(AllLists)
    \/ Return

Spec == InitUp /\ [][Next]_vars

\* SpecStore: the configuration commands alone, with the values and stamps
\* of StoreDom.
NextStore ==
    \/ Startup
    \/ DoWatchgroup(StoreRequests)
    \/ DoBlacklistrank(StoreRequests)
    \/ DoBlacklistuser(StoreRequests)
    \/ DoRanklock(StoreRequests)
    \/ Return

SpecStore == InitUp /\ [][NextStore]_vars

\* SpecDown: every handler while the database may be unconfigured, go down,
\* come back, and the process may be started again.
NextDown ==
    \/ StoreDown
    \/ StoreBack
    \/ Restart
    \/ Startup
    \/ DoWatchgroup(DownRequests)
    \/ DoBlacklistrank(DownRequests)
    \/ DoBlacklistuser(DownRequests)
    \/ DoRanklock(DownRequests)
    \/ DoBgcheck(FewLists \cup {<<Membership(1, 2)>>})
    \/ Return

SpecDown == Init /\ [][NextDown]_vars

\* ------------------------------------------------------------------------
\* http_get / http_post
\* ------------------------------------------------------------------------

\* What one requests.get / requests.post gives: a response with its status
\* code, or an exception (timeout, connection error).
Response(status_code) == [kind |-> "response", status_code |-> status_code]
TransportError == [kind |-> "exception", status_code |-> NoInt]
\* `last = None`
NoAnswer == [kind |-> "None", status_code |-> NoInt]

Statuses == {200, 401, 403, 404, 429, 500}
Answers == {Response(c) : c \in Statuses} \cup {TransportError}

Min(a, b) == IF a <= b THEN a ELSE b
Max(a, b) == IF a >= b THEN a ELSE b

\* A retry of every answer that is not a success.
AnotherAttemptUnlessOk(ans) == ans.kind = "exception" \/ ans.status_code # 200

\* The attempt does not return: the except branch, or the 429 branch with
\* its `continue`.
AnotherAttempt(ans) == ans.kind = "exception" \/ ans.status_code = 429

\* A wait after a 429 that grows without a cap.
BackoffUncapped(ans, attempt) ==
    IF ans.kind = "exception" THEN Min(1 * (attempt + 1), 3)
    ELSE 2 * (attempt + 1)

\* time.sleep(...) of the attempt, in seconds.
Backoff(ans, attempt) ==
    IF ans.kind = "exception" THEN Min(1 * (attempt + 1), 3)
    ELSE Min(2 * (attempt + 1), 6)

\* The frame at the first line of http_get (fn "get") / http_post ("post").
HttpFrame(fn, retries) ==
    [pc |-> "loop", fn |-> fn, retries |-> retries, attempt |-> 0,
     last |-> NoAnswer, ret |-> NoAnswer, slept |-> <<>>]

\* One pass of `for attempt in range(retries)`; ans: what the request gives.
HttpAttempt(ans) ==
    /\ http.pc = "loop"
    /\ http.attempt < http.retries
    /\ calls' = Append(calls, [svc |-> "http", fn |-> http.fn,
                               attempt |-> http.attempt, answer |-> ans])
    /\ http' = IF AnotherAttempt(ans)
               THEN [http EXCEPT !.last = ans, !.attempt = @ + 1,
                                 !.slept = Append(@, Backoff(ans, http.attempt))]
               ELSE [http EXCEPT !.pc = "returned", !.ret = ans]
    /\ UNCHANGED <<DATABASE_URL, storeUp, db_pool, tables, last, run,
                   task, est, inv, emitted>>

\* The loop is over: `return last`.
HttpExhausted ==
    /\ http.pc = "loop"
    /\ http.attempt >= http.retries
    /\ http' = [http EXCEPT !.pc = "returned", !.ret = http.last]
    /\ UNCHANGED <<DATABASE_URL, storeUp, db_pool, tables, last, run,
                   task, est, inv, calls, emitted>>

\* SpecHttp: one call of http_get or http_post with any `retries` up to
\* MaxRetries, against a server that gives any answer at every attempt.
InitHttp ==
    /\ InitStore
    /\ DATABASE_URL
    /\ storeUp
    /\ task = NoTask
    /\ est = NoEst
    /\ inv = NoInv
    /\ http \in {HttpFrame(fn, n) : fn \in {"get", "post"}, n \in 0..MaxRetries}
    /\ calls = <<>>
    /\ emitted = <<>>

DoHttpAttempt == \E ans \in Answers : HttpAttempt(ans)

NextHttp ==
    \/ DoHttpAttempt
    \/ HttpExhausted

SpecHttp == InitHttp /\ [][NextHttp]_vars

\* ------------------------------------------------------------------------
\* _inv_fetch_asset_type
\* ------------------------------------------------------------------------

\* The body of a 200 answer of the inventory service: the asset ids of
\* "data" in their order (NoInt: an item without an integer id) and
\* "nextPageCursor" (None or "": no further page).
Page(items, next) == [items |-> items, next |-> next]
NoPage == Page(<<>>, None)

\* The integer ids of the items, in their order.
IntIds(items) == SelectSeq(items, LAMBDA aid : aid # NoInt)

\* A traversal that does not remember the cursors it was given.
CursorNeverSeen(cursor, seen) == FALSE

\* `if cursor in seen: break`
CursorSeen(cursor, seen) == cursor \in seen

\* What the function returns: (asset_ids, status), asset_ids None when the
\* inventory is closed to the caller, status None (NoInt) without a response.
InvResult(is_none, asset_ids, status) ==
    [is_none |-> is_none, asset_ids |-> asset_ids, status |-> status]

\* The frame at the first line of the function.
InvFrame(asset_type_id, limit_pages) ==
    [pc |-> "loop", asset_type_id |-> asset_type_id, limit_pages |-> limit_pages,
     pass |-> 0, asset_ids |-> <<>>, cursor |-> "", status_code |-> NoInt,
     seen |-> {}, ret |-> InvResult(FALSE, <<>>, NoInt)]

\* The frame after `return asset_ids, status`.
InvReturned(f, is_none, asset_ids, status) ==
    [f EXCEPT !.pc = "returned", !.ret = InvResult(is_none, asset_ids, status)]

\* A pass that takes a 401 / 403 like any other status that is not 200.
InvPassOpen(f, r, body) ==
    IF r.kind = "exception" THEN InvReturned(f, FALSE, f.asset_ids, NoInt)
    ELSE IF r.status_code # 200
    THEN InvReturned([f EXCEPT !.status_code = r.status_code],
                     FALSE, f.asset_ids, r.status_code)
    ELSE
        LET asset_ids == f.asset_ids \o IntIds(body.items)
            got == [f EXCEPT !.status_code = 200, !.asset_ids = asset_ids,
                             !.cursor = body.next]
        IN
        IF ~Truthy(body.next) \/ CursorSeen(body.next, f.seen)
        THEN InvReturned(got, FALSE, asset_ids, 200)
        ELSE [got EXCEPT !.seen = @ \cup {body.next}, !.pass = @ + 1]

\* A pass that reports no status for any answer that is not a response of
\* status 200, 401 or 403.
InvPassNoStatus(f, r, body) ==
    IF r.kind = "exception" THEN InvReturned(f, FALSE, f.asset_ids, NoInt)
    ELSE IF r.status_code \in {401, 403}
    THEN InvReturned([f EXCEPT !.status_code = r.status_code],
                     TRUE, <<>>, r.status_code)
    ELSE IF r.status_code # 200
    THEN InvReturned(f, FALSE, f.asset_ids, NoInt)
    ELSE
        LET asset_ids == f.asset_ids \o IntIds(body.items)
            got == [f EXCEPT !.status_code = 200, !.asset_ids = asset_ids,
                             !.cursor = body.next]
        IN
        IF ~Truthy(body.next) \/ CursorSeen(body.next, f.seen)
        THEN InvReturned(got, FALSE, asset_ids, 200)
        ELSE [got EXCEPT !.seen = @ \cup {body.next}, !.pass = @ + 1]

\* One pass of `for _ in range(limit_pages)` on frame f; r: what http_get
\* returns, body: the body of r when its status is 200.
InvPass(f, r, body) ==
    IF r.kind = "exception" THEN InvReturned(f, FALSE, f.asset_ids, NoInt)
    ELSE IF r.status_code \in {401, 403}
    THEN InvReturned([f EXCEPT !.status_code = r.status_code],
                     TRUE, <<>>, r.status_code)
    ELSE IF r.status_code # 200
    THEN InvReturned([f EXCEPT !.status_code = r.status_code],
                     FALSE, f.asset_ids, r.status_code)
    ELSE
        LET asset_ids == f.asset_ids \o IntIds(body.items)
            got == [f EXCEPT !.status_code = 200, !.asset_ids = asset_ids,
                             !.cursor = body.next]
        IN
        IF ~Truthy(body.next) \/ CursorSeen(body.next, f.seen)
        THEN InvReturned(got, FALSE, asset_ids, 200)
        ELSE [got EXCEPT !.seen = @ \cup {body.next}, !.pass = @ + 1]

\* The request of a pass, as the log keeps it.
InvCall(f, r, body) ==
    [svc |-> "inventory", type |-> f.asset_type_id, cursor |-> f.cursor,
     answer |-> r, next |-> IF r.kind = "response" /\ r.status_code = 200
                            THEN body.next ELSE None]

InvPage(r, body) ==
    /\ inv.pc = "loop"
    /\ inv.pass < inv.limit_pages
    /\ calls' = Append(calls, InvCall(inv, r, body))
    /\ inv' = InvPass(inv, r, body)
    /\ UNCHANGED <<DATABASE_URL, storeUp, db_pool, tables, last, run,
                   task, est, http, emitted>>

\* The loop is over: `return asset_ids, status_code`.
InvLoopEnd ==
    /\ inv.pc = "loop"
    /\ inv.pass >= inv.limit_pages
    /\ inv' = InvReturned(inv, FALSE, inv.asset_ids, inv.status_code)
    /\ UNCHANGED <<DATABASE_URL, storeUp, db_pool, tables, last, run,
                   task, est, http, calls, emitted>>

\* Answers of http_get to the traversal: a 200 with one of the item lists
\* and one of the cursors, or one of the failures.
PageSet(items, cursors, failures) ==
    {[r |-> Response(200), body |-> Page(it, c)] : it \in items, c \in cursors}
    \cup {[r |-> a, body |-> NoPage] : a \in failures}

PagesOf(items, cursors) == PageSet(items, cursors, Answers \ {Response(200)})

\* SpecPages: one traversal with any limit_pages up to MaxPages against a
\* page source that gives any answer and any next cursor at every page.
PageAnswers == PagesOf({<<>>, <<1, NoInt, 2>>}, {None, "", "a", "b", "c"})

InitPages ==
    /\ InitStore
    /\ DATABASE_URL
    /\ storeUp
    /\ task = NoTask
    /\ est = NoEst
    /\ inv \in {InvFrame(8, n) : n \in 0..MaxPages}
    /\ http = NoHttp
    /\ calls = <<>>
    /\ emitted = <<>>

DoInvPage == \E a \in PageAnswers : InvPage(a.r, a.body)

NextPages ==
    \/ DoInvPage
    \/ InvLoopEnd

\* http_get returns (bounded retries, a timeout on every request), so the
\* loop always takes its next pass.
SpecPages == InitPages /\ [][NextPages]_vars /\ WF_vars(NextPages)

\* ------------------------------------------------------------------------
\* _economy_asset_price and compute_value_estimate
\* ------------------------------------------------------------------------

\* The asset type ids of ASSET_TYPES, in their order.
ASSET_TYPES == <<8, 41, 42, 43, 44, 45, 46, 47, 2, 11, 12, 18>>

\* limit_pages of the call of _inv_fetch_asset_type in compute_value_estimate
LimitPages == 2
\* The bounds of clamp(int(max_assets_to_price), 30, 300)
MinSample == 30
MaxSample == 300
\* max_assets_to_price of the call in bgcheck
BgSample == 120

\* `retries=3` of the http_get of _inv_fetch_asset_type
InvRetries == 3

\* A pass of the traversal begins: `r = http_get(url, ..., retries=3)`.
FetchStart ==
    /\ inv.pc = "loop"
    /\ inv.pass < inv.limit_pages
    /\ http = NoHttp
    /\ http' = HttpFrame("get", InvRetries)
    /\ UNCHANGED <<DATABASE_URL, storeUp, db_pool, tables, last, run,
                   task, est, inv, calls, emitted>>

\* http_get has returned: the rest of the pass, on what it returned and,
\* for a 200, its body.
FetchDone(body) ==
    /\ inv.pc = "loop"
    /\ http.pc = "returned"
    /\ calls' = Append(calls, InvCall(inv, http.ret, body))
    /\ inv' = InvPass(inv, http.ret, body)
    /\ http' = NoHttp
    /\ UNCHANGED <<DATABASE_URL, storeUp, db_pool, tables, last, run,
                   task, est, emitted>>

\* The loop of the traversal is over while no request is under way.
FetchLoopEnd ==
    /\ http = NoHttp
    /\ InvLoopEnd

\* SpecFetch: one traversal of a category as compute_value_estimate calls
\* it, every page fetched by http_get against a server that gives any
\* answer at every attempt.
FetchBodies ==
    {Page(items, c) : items \in {<<>>, <<1, 2>>}, c \in {None, "a", "b"}}

InitFetch ==
    /\ InitStore
    /\ DATABASE_URL
    /\ storeUp
    /\ task = NoTask
    /\ est = NoEst
    /\ inv = InvFrame(8, LimitPages)
    /\ http = NoHttp
    /\ calls = <<>>
    /\ emitted = <<>>

DoFetchDone ==
    /\ http.pc = "returned"
    /\ \E body \in IF http.ret = Response(200) THEN FetchBodies ELSE {NoPage} :
          FetchDone(body)

NextFetch ==
    \/ FetchStart
    \/ DoHttpAttempt
    \/ HttpExhausted
    \/ DoFetchDone
    \/ FetchLoopEnd

SpecFetch == InitFetch /\ [][NextFetch]_vars

\* A clamp that has no lower bound.
ClampAbove(n, lo, hi) == Min(hi, n)

\* clamp(n, lo, hi)
Clamp(n, lo, hi) == Max(lo, Min(hi, n))

\* A number of a JSON body is kept in halves: 1 is 0.5, 10 is 5, 15 is 7.5.
\* NoInt: null, missing, or not a number.
\* `price > 0`
Positive(halves) == halves # NoInt /\ halves > 0
\* int(price) of a number that is not negative
IntOf(halves) == halves \div 2

\* A price that is read without the test `price > 0`.
PriceOfAnyNumber(r, halves) ==
    IF r.kind = "exception" \/ r.status_code # 200 THEN NoInt
    ELSE IF halves # NoInt THEN IntOf(halves)
    ELSE NoInt

\* _economy_asset_price: r is what http_get returns, halves the "price" of
\* its body; the result is an int, or None (NoInt).
EconomyAssetPrice(r, halves) ==
    IF r.kind = "exception" \/ r.status_code # 200 THEN NoInt
    ELSE IF Positive(halves) THEN IntOf(halves)
    ELSE NoInt

\* A list that keeps every occurrence.
KeepAll(seq) == seq

\* list(dict.fromkeys(seq)): the first occurrence of every element, in order.
Dedup(seq) ==
    LET at == [k \in DOMAIN seq |-> <<k, seq[k]>>]
        firsts == SelectSeq(at, LAMBDA p : \A j \in 1..(p[1] - 1) : seq[j] # p[2])
    IN [k \in DOMAIN firsts |-> firsts[k][2]]

\* seq[:n]
Slice(seq, n) == SubSeq(seq, 1, Min(Len(seq), Max(n, 0)))

\* A scan that takes the first half of the bar.
ScanPctOfFifty(idx) == ((idx - 1) * 50) \div Max(1, Len(ASSET_TYPES))

\* pct = int((idx - 1) / max(1, total_types) * 40)
ScanPct(idx) == ((idx - 1) * 40) \div Max(1, Len(ASSET_TYPES))

\* The (i, total_to_price) with i = 1, i % 10 = 0 or i = total_to_price, up
\* to MaxSample, for which the float i / total * 55 falls just below the
\* whole number that i * 55 / total is.
FloatShort ==
    {<<30, 55>>, <<30, 110>>, <<60, 110>>, <<90, 165>>, <<60, 220>>, <<120, 220>>,
     <<70, 275>>, <<140, 275>>, <<150, 275>>}

\* pct = 40 + int(i / max(1, total_to_price) * 55)
PricingPct(i, total_to_price) ==
    40 + ((i * 55) \div Max(1, total_to_price))
       - (IF <<i, total_to_price>> \in FloatShort THEN 1 ELSE 0)

\* `if progress_cb: await progress_cb(pct, ...)`: the percentage handed to
\* the callback.  What the callback then does with it (throttle, send or
\* edit of the progress message, errors swallowed) returns nothing to the
\* estimator.
Emit(progress_cb, pct) == IF progress_cb THEN Append(emitted, pct) ELSE emitted

\* The dict compute_value_estimate returns.
Estimate(f, inventory_private, priced_assets, est_value, notes) ==
    [inventory_private |-> inventory_private, type_counts |-> f.type_counts,
     priced_assets |-> priced_assets, est_value_robux |-> est_value,
     notes |-> notes, status_map |-> f.status_map]

\* The frame after `max_assets_to_price = clamp(...)` and the initialisers.
EstFrame(user_id, max_assets_to_price, progress_cb) ==
    [pc |-> "scan", user_id |-> user_id, progress_cb |-> progress_cb,
     given |-> max_assets_to_price,   \* the argument of the call
     max_assets_to_price |-> Clamp(max_assets_to_price, MinSample, MaxSample),
     notes |-> <<>>, type_counts |-> <<>>, all_assets |-> <<>>, status_map |-> <<>>,
     inventory_private |-> FALSE, idx |-> 1, est_value |-> NoInt, priced_assets |-> 0,
     uniq_assets |-> <<>>, total |-> 0, total_to_price |-> 0, i |-> 1,
     ret |-> [inventory_private |-> FALSE, type_counts |-> <<>>, priced_assets |-> 0,
              est_value_robux |-> NoInt, notes |-> <<>>, status_map |-> <<>>]]

\* Phase 1, head of a pass: the progress call and the call of
\* _inv_fetch_asset_type for ASSET_TYPES[idx].
ScanType ==
    /\ est.pc = "scan"
    /\ emitted' = Emit(est.progress_cb, ScanPct(est.idx))
    /\ inv' = InvFrame(ASSET_TYPES[est.idx], LimitPages)
    /\ est' = [est EXCEPT !.pc = "fetch"]
    /\ UNCHANGED <<DATABASE_URL, storeUp, db_pool, tables, last, run, task, http, calls>>

\* A page of the category that is being fetched; pages[idx][pass]: the
\* answers the inventory service may give to that request.
ScanPage(pages) ==
    /\ est.pc = "fetch"
    /\ inv.pc = "loop"
    /\ inv.pass < inv.limit_pages
    /\ \E a \in pages[est.idx][inv.pass + 1] : InvPage(a.r, a.body)

ScanLoopEnd ==
    /\ est.pc = "fetch"
    /\ InvLoopEnd

\* Phase 1, rest of a pass: _inv_fetch_asset_type has returned.
ScanResult ==
    /\ est.pc = "fetch"
    /\ inv.pc = "returned"
    /\ LET res == inv.ret
           status_map == Append(est.status_map, res.status)
       IN
       est' = IF res.is_none
              THEN [est EXCEPT !.status_map = status_map, !.inventory_private = TRUE,
                               !.pc = "phase2"]
              ELSE [est EXCEPT !.status_map = status_map,
                               !.type_counts = Append(@, Len(res.asset_ids)),
                               !.all_assets = @ \o res.asset_ids,
                               !.idx = @ + 1,
                               !.pc = IF est.idx >= Len(ASSET_TYPES)
                                      THEN "phase2" ELSE "scan"]
    /\ inv' = NoInv
    /\ UNCHANGED <<DATABASE_URL, storeUp, db_pool, tables, last, run, task, http,
                   calls, emitted>>

\* After the loop of phase 1: the two early returns, or the sample.
Phase2 ==
    /\ est.pc = "phase2"
    /\ LET uniq_assets == Dedup(est.all_assets) IN
       IF est.inventory_private
       THEN LET notes == Append(est.notes, "inventory_blocked") IN
            /\ emitted' = Emit(est.progress_cb, 100)
            /\ est' = [est EXCEPT !.pc = "returned", !.notes = notes,
                                  !.ret = Estimate(est, TRUE, 0, NoInt, notes)]
       ELSE IF uniq_assets = <<>>
       THEN LET notes == Append(est.notes, "no_items_found") IN
            /\ emitted' = Emit(est.progress_cb, 100)
            /\ est' = [est EXCEPT !.pc = "returned", !.notes = notes,
                                  !.uniq_assets = uniq_assets,
                                  !.ret = Estimate(est, FALSE, 0, NoInt, notes)]
       ELSE LET sample == Slice(uniq_assets, est.max_assets_to_price) IN
            /\ emitted' = emitted
            /\ est' = [est EXCEPT !.pc = "price", !.uniq_assets = sample,
                                  !.total = 0, !.total_to_price = Len(sample),
                                  !.i = 1]
    /\ UNCHANGED <<DATABASE_URL, storeUp, db_pool, tables, last, run, task, inv,
                   http, calls>>

\* One pass of the pricing loop; r, halves: what http_get returns to
\* _economy_asset_price and the "price" of its body.
PriceItem(r, halves) ==
    /\ est.pc = "price"
    /\ est.i <= est.total_to_price
    /\ LET i == est.i
           aid == est.uniq_assets[i]
           price == EconomyAssetPrice(r, halves)
       IN
       /\ emitted' = IF i = 1 \/ i % 10 = 0 \/ i = est.total_to_price
                     THEN Emit(est.progress_cb, PricingPct(i, est.total_to_price))
                     ELSE emitted
       /\ calls' = Append(calls, [svc |-> "price", aid |-> aid, answer |-> r,
                                  halves |-> IF r.kind = "response" /\ r.status_code = 200
                                             THEN halves ELSE NoInt])
       /\ est' = IF price # NoInt
                 THEN [est EXCEPT !.total = @ + price, !.priced_assets = @ + 1,
                                  !.i = @ + 1]
                 ELSE [est EXCEPT !.i = @ + 1]
    /\ UNCHANGED <<DATABASE_URL, storeUp, db_pool, tables, last, run, task, inv, http>>

\* After the pricing loop: est_value, the caveat, the last progress call.
EstFinish ==
    /\ est.pc = "price"
    /\ est.i > est.total_to_price
    /\ LET est_value == IF est.priced_assets > 0 THEN est.total ELSE NoInt
           notes == IF est.priced_assets > 0 THEN est.notes
                    ELSE Append(est.notes, "no_prices_read")
       IN
       /\ emitted' = Emit(est.progress_cb, 100)
       /\ est' = [est EXCEPT !.pc = "returned", !.est_value = est_value,
                             !.notes = notes,
                             !.ret = Estimate(est, FALSE, est.priced_assets,
                                              est_value, notes)]
    /\ UNCHANGED <<DATABASE_URL, storeUp, db_pool, tables, last, run, task, inv,
                   http, calls>>

\* The answers of the price service: prices[aid] is the set of what
\* http_get may return for the asset, with the "price" of a 200.
PriceOf(r, halves) == [r |-> r, halves |-> halves]
DoPriceItem(prices) ==
    /\ est.pc = "price"
    /\ est.i <= est.total_to_price
    /\ \E a \in prices[est.uniq_assets[est.i]] : PriceItem(a.r, a.halves)

\* The ids start .. start + n - 1, as the items of one page.
Block(start, n) == [k \in 1..n |-> start + k - 1]

\* A 200 with the given items and next cursor.
Ok200(items, next) == [r |-> Response(200), body |-> Page(items, next)]

\* SpecSample: compute_value_estimate called with any max_assets_to_price
\* (negative, below 30, inside the range, above 300) and no progress
\* callback, on inventories of 0 to 400 items, some of them listed by two
\* categories; every item has a price.
SampleArgs == {0 - 5, 0, 29, 30, 31, 120, 300, 301, 1000}

SamplePages ==
    [idx \in DOMAIN ASSET_TYPES |->
        [pass \in 1..LimitPages |->
            IF idx = 1 /\ pass = 1
            THEN {Ok200(Block(1, n), None) : n \in {0, 1, 29, 30, 31}}
                 \cup {Ok200(Block(1, 100), "a")}
            ELSE IF idx = 1
            THEN {Ok200(<<>>, None), Ok200(Block(101, 100), "c")}
            ELSE IF idx = 2 /\ pass = 1
            THEN {Ok200(<<>>, None), Ok200(Block(201, 99), None),
                  Ok200(Block(1, 100), None), Ok200(Block(201, 100), "b")}
            ELSE IF idx = 2
            THEN {Ok200(Block(301, n), None) : n \in {1, 100}}
            ELSE {Ok200(<<>>, None)}]]

SamplePrices == [aid \in 1..400 |-> {PriceOf(Response(200), 2)}]

InitSample ==
    /\ InitStore
    /\ DATABASE_URL
    /\ storeUp
    /\ task = NoTask
    /\ est \in {EstFrame(1, m, FALSE) : m \in SampleArgs}
    /\ inv = NoInv
    /\ http = NoHttp
    /\ calls = <<>>
    /\ emitted = <<>>

NextSample ==
    \/ ScanType
    \/ ScanPage(SamplePages)
    \/ ScanLoopEnd
    \/ ScanResult
    \/ Phase2
    \/ DoPriceItem(SamplePrices)
    \/ EstFinish

SpecSample == InitSample /\ [][NextSample]_vars

\* ------------------------------------------------------------------------
\* /bgcheck, one await at a time
\* ------------------------------------------------------------------------

\* What a service answers to a lookup: a response with a status and, in the
\* body of a 200, an id (NoInt: none in the body), or a transport failure.
Lookup(kind, status_code, id) == [kind |-> kind, status_code |-> status_code, id |-> id]
Found(id) == Lookup("response", 200, id)
Status(status_code) == Lookup("response", status_code, NoInt)
Failed == Lookup("exception", NoInt, NoInt)

\* discord_to_roblox, on the response of requests.get: None (NoInt) unless
\* the status is 200 and the body has a truthy id.
DiscordToRoblox(r) ==
    IF r.status_code # 200 THEN NoInt
    ELSE IF r.id # NoInt /\ r.id # 0 THEN r.id
    ELSE NoInt

\* username_to_roblox, on what http_post returns.
UsernameToRoblox(r) ==
    IF r.kind = "exception" \/ r.status_code # 200 THEN NoInt
    ELSE r.id

\* get_roblox_user raises unless http_get returns a 200.
ProfileFails(r) == r.kind = "exception" \/ r.status_code # 200

\* `isinstance(r, Exception) or getattr(r, "status_code", None) != 200`
GroupsUnavailable(r) == r.kind = "exception" \/ r.status_code # 200

\* get_user_groups, on what http_get returns and the "data" of its body.
GetUserGroups(r, data) == IF GroupsUnavailable(r) THEN <<>> ELSE data

\* The frame of a run before its first await has returned.
BgFrame(req) ==
    [pc |-> "ensure", req |-> req, db_ok |-> FALSE, target_roblox_id |-> NoInt,
     fetched |-> "ok", groups |-> <<>>,
     rules |-> LoadRules(FALSE, None, FALSE, FALSE, FALSE, req.guild_id, NoInt),
     value_est |-> None]

\* The run ends before the embed: with a message, or with an exception.
BgEnds(how, reply) ==
    /\ run' = Ended(how, task.db_ok)
    /\ last' = Event("bgcheck", task.req,
                     [op |-> "ensure", ensured |-> task.db_ok,
                      res |-> [kind |-> "None", rows |-> {}]], reply)
    /\ task' = NoTask

\* The command arrives: defer, `db_ok = await ensure_db()`.
BgStart(req, tables_ok) ==
    /\ Idle
    /\ task = NoTask
    /\ LET e == EnsureDb(db_pool, DATABASE_URL, storeUp, tables_ok) IN
       /\ db_pool' = e.pool
       /\ task' = [BgFrame(req) EXCEPT !.pc = "identity", !.db_ok = e.ret]
    /\ run' = NoRun
    /\ calls' = <<>>
    /\ emitted' = <<>>
    /\ UNCHANGED <<DATABASE_URL, storeUp, tables, last, est, inv, http>>

\* "Resolve Roblox ID".  r is the answer of the one service the chain asks,
\* if it asks one.
BgIdentity(r) ==
    /\ task.pc = "identity"
    /\ LET req == task.req
           asked == IF req.discord_user # NoInt THEN "rover"
                    ELSE IF req.roblox_id # NoInt THEN "none"
                    ELSE IF Truthy(req.username) THEN "usernames"
                    ELSE "none"
           rover == IF asked = "rover" /\ r.kind # "exception"
                    THEN DiscordToRoblox(r) ELSE NoInt
           name_lookup == IF asked = "usernames" THEN UsernameToRoblox(r) ELSE NoInt
           ident == ResolveTarget(req, rover, name_lookup)
       IN
       /\ asked = "none" => r = Failed   \* no answer is read
       /\ calls' = IF asked = "none" THEN calls
                   ELSE Append(calls, [svc |-> asked, answer |-> r])
       /\ IF asked = "rover" /\ r.kind = "exception"
          THEN \* requests.get raises inside discord_to_roblox
               BgEnds("RequestException", Unhandled)
          ELSE IF ~ident.ok
          THEN BgEnds(ident.msg, Reply(ident.msg))
          ELSE /\ task' = [task EXCEPT !.pc = "profile",
                                       !.target_roblox_id = ident.target]
               /\ UNCHANGED <<run, last>>
    /\ UNCHANGED <<DATABASE_URL, storeUp, db_pool, tables, est, inv, http, emitted>>

\* `user = await asyncio.to_thread(get_roblox_user, target_roblox_id)`
BgProfile(r) ==
    /\ task.pc = "profile"
    /\ calls' = Append(calls, [svc |-> "profile", answer |-> r])
    /\ IF ProfileFails(r)
       THEN BgEnds("RuntimeError", Unhandled)
       ELSE /\ task' = [task EXCEPT !.pc = "groups"]
            /\ UNCHANGED <<run, last>>
    /\ UNCHANGED <<DATABASE_URL, storeUp, db_pool, tables, est, inv, http, emitted>>

\* `groups = await asyncio.to_thread(get_user_groups, target_roblox_id)`
BgGroups(r, data) ==
    /\ task.pc = "groups"
    /\ GroupsUnavailable(r) => data = <<>>   \* no body is read
    /\ calls' = Append(calls, [svc |-> "groups", answer |-> r])
    /\ task' = [task EXCEPT !.pc = "rules",
                             !.fetched = IF GroupsUnavailable(r) THEN "failed" ELSE "ok",
                             !.groups = GetUserGroups(r, data)]
    /\ UNCHANGED <<run, last>>
    /\ UNCHANGED <<DATABASE_URL, storeUp, db_pool, tables, est, inv, http, emitted>>

\* "Load rules": the selects, when db_ok.
BgRules(tables_ok) ==
    /\ task.pc = "rules"
    /\ LET rules == LoadRules(task.db_ok, db_pool, DATABASE_URL, storeUp, tables_ok,
                              task.req.guild_id, task.target_roblox_id)
       IN
       /\ calls' = IF task.db_ok
                   THEN Append(calls, [svc |-> "store", answer |-> rules.raised])
                   ELSE calls
       /\ IF rules.raised
          THEN BgEnds("StoreError", Unhandled)
          ELSE /\ task' = [task EXCEPT !.pc = "flag", !.rules = rules]
               /\ UNCHANGED <<run, last>>
    /\ UNCHANGED <<DATABASE_URL, storeUp, db_pool, tables, est, inv, http, emitted>>

\* "Account info" to `group_chunks`: the notes and the loop over the
\* memberships; nothing is awaited.
BgFlag ==
    /\ task.pc = "flag"
    /\ task' = [task EXCEPT !.pc = "value"]
    /\ UNCHANGED <<DATABASE_URL, storeUp, db_pool, tables, last, run, est, inv, http,
                   calls, emitted>>

\* `if include_value:` progress_cb(0, ...) and the call of
\* compute_value_estimate.
BgValueStart ==
    /\ task.pc = "value"
    /\ est = NoEst
    /\ IF task.req.include_value
       THEN /\ emitted' = Append(emitted, 0)
            /\ est' = EstFrame(task.target_roblox_id, BgSample, TRUE)
            /\ task' = [task EXCEPT !.pc = "valuing"]
       ELSE /\ task' = [task EXCEPT !.pc = "embed"]
            /\ UNCHANGED <<est, emitted>>
    /\ UNCHANGED <<DATABASE_URL, storeUp, db_pool, tables, last, run, inv, http, calls>>

\* compute_value_estimate has returned.
BgValueDone ==
    /\ task.pc = "valuing"
    /\ est.pc = "returned"
    /\ task' = [task EXCEPT !.pc = "embed", !.value_est = est.ret]
    /\ est' = NoEst
    /\ UNCHANGED <<DATABASE_URL, storeUp, db_pool, tables, last, run, inv, http,
                   calls, emitted>>

\* "Build Embed" to the last send; with include_value, progress_cb(100, ...).
BgEmbed ==
    /\ task.pc = "embed"
    /\ LET report == Report(task.req, task.db_ok, task.target_roblox_id, 400,
                            task.fetched, task.groups, task.rules, "none")
       IN
       run' = IF task.req.include_value
              THEN [report EXCEPT !.embed.value = task.value_est]
              ELSE report
    /\ emitted' = IF task.req.include_value THEN Append(emitted, 100) ELSE emitted
    /\ last' = Event("bgcheck", task.req,
                     [op |-> "ensure", ensured |-> task.db_ok,
                      res |-> [kind |-> "None", rows |-> {}]], Reply("embed"))
    /\ task' = NoTask
    /\ UNCHANGED <<DATABASE_URL, storeUp, db_pool, tables, est, inv, http, calls>>

\* The valuation of a run, on the pages and prices the services give.
Valuation(pages, prices) ==
    \/ ScanType
    \/ ScanPage(pages)
    \/ ScanLoopEnd
    \/ ScanResult
    \/ Phase2
    \/ DoPriceItem(prices)
    \/ EstFinish

\* The answers of RoVer, of the usernames endpoint, of the profile endpoint
\* and of the membership endpoint.
RoverAnswers == {Found(1), Found(NoInt), Status(404), Failed}
NameAnswers == {Found(1), Found(NoInt), Status(429), Status(500), Failed}
ProfileAnswers == {Found(1), Status(404), Status(429), Failed}
GroupsAnswers == {Status(200), Status(429), Status(500), Failed}

\* The answers the identity chain can read for a request.
IdentityAnswers(req) ==
    IF req.discord_user # NoInt THEN RoverAnswers
    ELSE IF req.roblox_id # NoInt THEN {Failed}
    ELSE IF Truthy(req.username) THEN NameAnswers
    ELSE {Failed}

DoBgStart(requests) == \E req \in requests, ok \in TablesOk : BgStart(req, ok)
DoBgIdentity ==
    /\ task.pc = "identity"
    /\ \E r \in IdentityAnswers(task.req) : BgIdentity(r)
DoBgProfile(answers) == \E r \in answers : BgProfile(r)
DoBgGroups(answers, lists) ==
    \E r \in answers : \E data \in IF GroupsUnavailable(r) THEN {<<>>} ELSE lists :
        BgGroups(r, data)
DoBgRules == \E ok \in TablesOk : BgRules(ok)

\* SpecRun: a check with every combination of the three identity inputs,
\* with and without valuation, every answer of the four lookups, and an
\* inventory of one item or none, open or closed.
RunRequests ==
    {BgReq(d, rid, u, FALSE, iv) :
        d \in {NoInt, 55}, rid \in {NoInt, 1}, u \in {None, "builder"}, iv \in BOOLEAN}

RunPages ==
    [idx \in DOMAIN ASSET_TYPES |->
        [pass \in 1..LimitPages |->
            IF idx = 1 /\ pass = 1
            THEN PageSet({<<>>, <<1>>}, {None}, {Response(403)})
            ELSE IF idx = 2 /\ pass = 1
            THEN {Ok200(<<>>, None), Ok200(<<>>, "a")}
            ELSE IF idx = 2
            THEN {Ok200(<<>>, "b")}
            ELSE {Ok200(<<>>, None)}]]

RunPrices == [aid \in 1..1 |-> {PriceOf(Response(200), 10), PriceOf(Response(404), NoInt)}]

NextRun ==
    \/ DoBgStart(RunRequests)
    \/ DoBgIdentity
    \/ DoBgProfile(ProfileAnswers)
    \/ DoBgGroups(GroupsAnswers, {<<>>, FullList})
    \/ DoBgRules
    \/ BgFlag
    \/ BgValueStart
    \/ Valuation(RunPages, RunPrices)
    \/ BgValueDone
    \/ BgEmbed
    \/ Return

SpecRun == InitUp /\ [][NextRun]_vars

\* SpecValue: compute_value_estimate with a progress callback, against
\* services that fail or close the inventory at any of the first pages,
\* list an item twice in a category or in two categories, and give for an
\* item a price that is missing, zero, a fraction or a whole number, or no
\* answer.
ValuePages ==
    [idx \in DOMAIN ASSET_TYPES |->
        [pass \in 1..LimitPages |->
            IF idx = 1
            THEN PageSet({<<>>, <<1, 2>>, <<1, 1>>},
                         IF pass = 1 THEN {None, "a"} ELSE {None, "a", "b"},
                         {Response(403), Response(500), TransportError})
            ELSE IF idx = 2 /\ pass = 1
            THEN PageSet({<<>>, <<2, 3>>}, {None}, {Response(401), TransportError})
            ELSE IF idx = Len(ASSET_TYPES) /\ pass = 1
            THEN PageSet({<<>>}, {None}, {Response(403)})
            ELSE {Ok200(<<>>, None)}]]

\* The "price" of a 200, in halves: none, 0, 0.5, 5, 7.5.
PriceBodies == {NoInt, 0, 1, 10, 15}

ValuePrices ==
    [aid \in 1..3 |->
        {PriceOf(Response(200), h) : h \in PriceBodies}
        \cup {PriceOf(Response(404), NoInt), PriceOf(TransportError, NoInt)}]

InitValue ==
    /\ InitStore
    /\ DATABASE_URL
    /\ storeUp
    /\ task = NoTask
    /\ est = EstFrame(1, BgSample, TRUE)
    /\ inv = NoInv
    /\ http = NoHttp
    /\ calls = <<>>
    /\ emitted = <<>>

NextValue == Valuation(ValuePages, ValuePrices)

SpecValue == InitValue /\ [][NextValue]_vars

\* SpecProgress: a check by id with valuation, on an inventory of any
\* number of items up to MaxItems, in one page or two, open or closed.
MaxItems == 125

ProgressRequests == {BgReq(NoInt, 1, None, FALSE, TRUE)}

ProgressPages ==
    [idx \in DOMAIN ASSET_TYPES |->
        [pass \in 1..LimitPages |->
            IF idx = 1 /\ pass = 1
            THEN {Ok200(Block(1, n), None) : n \in 0..MaxItems}
                 \cup {Ok200(Block(1, 100), "a"),
                       [r |-> Response(403), body |-> NoPage]}
            ELSE IF idx = 1
            THEN {Ok200(Block(101, 100), "b")}
            ELSE IF idx = 7 /\ pass = 1
            THEN PageSet({<<>>}, {None}, {Response(401)})
            ELSE {Ok200(<<>>, None)}]]

ProgressPrices ==
    [aid \in 1..200 |->
        IF aid = 1 THEN {PriceOf(Response(200), 10), PriceOf(Response(404), NoInt)}
        ELSE {PriceOf(Response(404), NoInt)}]

NextProgress ==
    \/ DoBgStart(ProgressRequests)
    \/ DoBgIdentity
    \/ DoBgProfile({Found(1)})
    \/ DoBgGroups({Status(200)}, {FullList})
    \/ DoBgRules
    \/ BgFlag
    \/ BgValueStart
    \/ Valuation(ProgressPages, ProgressPrices)
    \/ BgValueDone
    \/ BgEmbed
    \/ Return

SpecProgress == InitUp /\ [][NextProgress]_vars

\* ------------------------------------------------------------------------
\* ensure_db and the store helpers, one await at a time
\* ------------------------------------------------------------------------

\* The coroutines that run on the event loop at the same time; in SpecPool
\* `task` holds one frame for each of them.
Tasks == {1, 2}

\* Largest number of pools create_pool gives during one behaviour.
MaxPools == 3

\* The pools, in the order create_pool gives them.
PoolNames == <<"pool1", "pool2", "pool3", "pool4", "pool5">>

\* The create_pool calls that have succeeded so far.
Created == {k \in DOMAIN calls : calls[k].svc = "create_pool"}

\* What calls ensure_db: on_ready, or one of the store helpers.
Callers == {"on_ready", "exec", "fetch", "fetchrow"}

\* The frame of a coroutine that is not running.
PoolIdle == [pc |-> "idle", op |-> "none", pool |-> None, ret |-> "none",
             seen |-> None, outcome |-> "none"]

\* ensure_db has returned True to coroutine t, which runs on without an
\* await: on_ready is done with the store; a helper executes `assert db_pool
\* is not None` and then `db_pool.acquire()`.
AfterEnsured(f, pool) ==
    IF f.op = "on_ready"
    THEN [f EXCEPT !.pc = "done", !.ret = "True", !.seen = pool, !.outcome = "ready"]
    ELSE IF pool = None
    THEN [f EXCEPT !.pc = "done", !.ret = "True", !.seen = pool,
                   !.outcome = "AssertionError"]
    ELSE [f EXCEPT !.pc = "query", !.ret = "True", !.seen = pool, !.pool = pool]

\* ensure_db has returned False: the helper returns its disabled value.
AfterDisabled(f) ==
    [f EXCEPT !.pc = "done", !.ret = "False", !.pool = None,
              !.outcome = IF f.op = "on_ready" THEN "ready" ELSE "disabled"]

\* Coroutine t calls ensure_db (from op) and runs to its first await:
\* the two early returns, or `await asyncpg.create_pool(...)`.
EnsureEnter(t, op) ==
    /\ task[t].pc = "idle"
    /\ LET f == [PoolIdle EXCEPT !.op = op] IN
       task' = [task EXCEPT ![t] =
                   IF db_pool # None THEN AfterEnsured(f, db_pool)
                   ELSE IF ~DATABASE_URL THEN AfterDisabled(f)
                   ELSE [f EXCEPT !.pc = "create_pool"]]
    /\ UNCHANGED <<DATABASE_URL, storeUp, db_pool, tables, last, run, est, inv, http,
                   calls, emitted>>

\* create_pool returns to t: `db_pool = ...`, then the await of acquire()
\* and of CREATE_TABLES_SQL; or it raises: `db_pool = None; return False`.
CreatePoolDone(t, connect_ok) ==
    /\ task[t].pc = "create_pool"
    /\ IF connect_ok
       THEN /\ Cardinality(Created) < MaxPools
            /\ LET pool == PoolNames[Cardinality(Created) + 1] IN
               /\ db_pool' = pool
               /\ calls' = Append(calls, [svc |-> "create_pool", pool |-> pool, by |-> t])
               /\ task' = [task EXCEPT ![t].pc = "tables", ![t].pool = pool]
       ELSE /\ db_pool' = None
            /\ calls' = calls
            /\ task' = [task EXCEPT ![t] = AfterDisabled(@)]
    /\ UNCHANGED <<DATABASE_URL, storeUp, tables, last, run, est, inv, http, emitted>>

\* CREATE_TABLES_SQL returns to t: `return True`; or acquire() / execute
\* raises: `db_pool = None; return False`.
CreateTablesDone(t, tables_ok) ==
    /\ task[t].pc = "tables"
    /\ IF tables_ok
       THEN /\ task' = [task EXCEPT ![t] = AfterEnsured(@, db_pool)]
            /\ db_pool' = db_pool
       ELSE /\ db_pool' = None
            /\ task' = [task EXCEPT ![t] = AfterDisabled(@)]
    /\ UNCHANGED <<DATABASE_URL, storeUp, tables, last, run, est, inv, http,
                   calls, emitted>>

\* The statement of a helper returns to t, or raises.
QueryDone(t, ok) ==
    /\ task[t].pc = "query"
    /\ task' = [task EXCEPT ![t].pc = "done", ![t].pool = None,
                            ![t].outcome = IF ok THEN "ok" ELSE "raised"]
    /\ UNCHANGED <<DATABASE_URL, storeUp, db_pool, tables, last, run, est, inv, http,
                   calls, emitted>>

\* The coroutine ends.
TaskEnds(t) ==
    /\ task[t].pc = "done"
    /\ task' = [task EXCEPT ![t] = PoolIdle]
    /\ UNCHANGED <<DATABASE_URL, storeUp, db_pool, tables, last, run, est, inv, http,
                   calls, emitted>>

\* SpecPool: the coroutines of Tasks call ensure_db and the helpers in any
\* interleaving, with and without DATABASE_URL; any create_pool and any
\* statement may fail.
InitPool ==
    /\ InitStore
    /\ storeUp
    /\ task = [t \in Tasks |-> PoolIdle]
    /\ est = NoEst
    /\ inv = NoInv
    /\ http = NoHttp
    /\ calls = <<>>
    /\ emitted = <<>>

DoEnsureEnter == \E t \in Tasks, op \in Callers : EnsureEnter(t, op)
DoCreatePoolDone == \E t \in Tasks, ok \in BOOLEAN : CreatePoolDone(t, ok)
DoCreateTablesDone == \E t \in Tasks, ok \in BOOLEAN : CreateTablesDone(t, ok)
DoQueryDone == \E t \in Tasks, ok \in BOOLEAN : QueryDone(t, ok)
DoTaskEnds == \E t \in Tasks : TaskEnds(t)

NextPool ==
    \/ DoEnsureEnter
    \/ DoCreatePoolDone
    \/ DoCreateTablesDone
    \/ DoQueryDone
    \/ DoTaskEnds

SpecPool == InitPool /\ [][NextPool]_vars

\* ------------------------------------------------------------------------
\* progress_cb of /bgcheck
\* ------------------------------------------------------------------------

\* Time is counted in quarters of a second.  MinInterval: the 1.25 of
\* `(now - last_update) < 1.25`.
MinInterval == 5

\* time.time() when the run reaches `if include_value:`.
Epoch == 1000

\* Largest number of calls of progress_cb with a percentage below 100
\* during one run.
MaxEvents == 3

\* The time that passes between two calls of progress_cb: none that the
\* clock shows, a second, 1.25 seconds.
Gaps == {0, 4, 5}

\* The percentages below 100 that the estimator hands over.
Percents == {0, 36, 95}

\* A throttle that also holds back the 100.
ThrottledAlways(percent, now, last_update) == (now - last_update) < MinInterval

\* `(now - last_update) < 1.25 and percent < 100`
Throttled(percent, now, last_update) ==
    (now - last_update) < MinInterval /\ percent < 100

\* The frame of bgcheck at `progress_msg = None; last_update = 0.0`, with
\* the clock of the process.
ProgressFrame ==
    [pc |-> "start", progress_msg |-> None, last_update |-> 0, now |-> Epoch]

\* progress_cb(percent, message) called at time now, on the closure state
\* of frame f; delivered: the send or the edit does not raise.  Gives the
\* frame after the call and the entry of the log.
ProgressCb(f, percent, now, delivered) ==
    IF Throttled(percent, now, f.last_update)
    THEN [frame |-> [f EXCEPT !.now = now],
          entry |-> [svc |-> "progress", percent |-> percent, at |-> now,
                     relayed |-> FALSE, op |-> "none"]]
    ELSE [frame |-> [f EXCEPT !.now = now, !.last_update = now,
                              !.progress_msg =
                                  IF f.progress_msg = None /\ delivered
                                  THEN "message" ELSE f.progress_msg],
          entry |-> [svc |-> "progress", percent |-> percent, at |-> now,
                     relayed |-> TRUE,
                     op |-> IF f.progress_msg = None THEN "send" ELSE "edit"]]

\* A call of progress_cb by the run, dt after the previous one.
Progress(pc, percent, dt, delivered) ==
    LET c == ProgressCb(task, percent, task.now + dt, delivered) IN
    /\ task' = [c.frame EXCEPT !.pc = pc]
    /\ calls' = Append(calls, c.entry)
    /\ emitted' = Append(emitted, percent)
    /\ UNCHANGED <<DATABASE_URL, storeUp, db_pool, tables, last, run, est, inv, http>>

\* `await progress_cb(0, "Starting...")`
ProgressStart(delivered) ==
    /\ task.pc = "start"
    /\ Progress("estimating", 0, 0, delivered)

\* A call from compute_value_estimate with a percentage below 100, not
\* below the one before.
ProgressStep(percent, dt, delivered) ==
    /\ task.pc = "estimating"
    /\ Len(emitted) <= MaxEvents
    /\ percent >= emitted[Len(emitted)]
    /\ Progress("estimating", percent, dt, delivered)

\* The call with 100 that precedes every return of compute_value_estimate.
ProgressEstimated(dt, delivered) ==
    /\ task.pc = "estimating"
    /\ Progress("embed", 100, dt, delivered)

\* `await progress_cb(100, "Done.")` and the edit to "Value calc complete."
ProgressDone(dt, delivered) ==
    /\ task.pc = "embed"
    /\ Progress("done", 100, dt, delivered)

\* SpecThrottle: the calls of progress_cb of one run with include_value,
\* any time apart, the channel failing at any send or edit.
InitThrottle ==
    /\ InitStore
    /\ DATABASE_URL
    /\ storeUp
    /\ task = ProgressFrame
    /\ est = NoEst
    /\ inv = NoInv
    /\ http = NoHttp
    /\ calls = <<>>
    /\ emitted = <<>>

DoProgressStart == \E ok \in BOOLEAN : ProgressStart(ok)
DoProgressStep ==
    \E percent \in Percents, dt \in Gaps, ok \in BOOLEAN : ProgressStep(percent, dt, ok)
DoProgressEstimated == \E dt \in Gaps, ok \in BOOLEAN : ProgressEstimated(dt, ok)
DoProgressDone == \E dt \in Gaps, ok \in BOOLEAN : ProgressDone(dt, ok)

NextThrottle ==
    \/ DoProgressStart
    \/ DoProgressStep
    \/ DoProgressEstimated
    \/ DoProgressDone

SpecThrottle == InitThrottle /\ [][NextThrottle]_vars

\* ------------------------------------------------------------------------
\* The report against the rules of the store
\* ------------------------------------------------------------------------

\* A /bgcheck run has built its report.  No other handler runs before it
\* returns, so the tables are the ones the run has read.
Reported == last.ev = "bgcheck" /\ run.outcome = "report"
\* ... and ensure_db() had answered True, so that the rules were loaded.
Loaded == Reported /\ run.db_ok

\* The rules of the store for the tenant and the subject of the run.
WatchRules == {r \in watched_groups : r.guild_id = run.guild_id}
RankRules == {r \in blacklisted_ranks : r.guild_id = run.guild_id}
SubjectRules ==
    {r \in blacklisted_users :
        r.guild_id = run.guild_id /\ r.roblox_user_id = run.target_roblox_id}
Locks ==
    {r \in ranklocks :
        r.guild_id = run.guild_id /\ r.roblox_user_id = run.target_roblox_id}

\* The memberships of the run, by their position in groups_sorted.
Members == DOMAIN run.flags
\* The entries of the membership list that show membership i.
Entries(i) == {k \in DOMAIN run.lines : run.lines[k].gid = run.flags[i].gid}

HasWatchRule(i) == \E r \in WatchRules : r.group_id = run.flags[i].gid
RankRulesOf(i) ==
    {r \in RankRules : r.group_id = run.flags[i].gid /\ r.rank_id = run.flags[i].rank_id}
LocksOf(i) == {r \in Locks : r.group_id = run.flags[i].gid}
ExceedsLock(i) == \E r \in LocksOf(i) : run.flags[i].rank_id > r.max_rank_id

\* The display state the rules give membership i, by precedence.
DisplayState(i) ==
    IF RankRulesOf(i) # {} THEN "blacklisted-rank"
    ELSE IF ExceedsLock(i) THEN "ranklock-exceeded"
    ELSE IF HasWatchRule(i) THEN "watched"
    ELSE "unflagged"

\* The display state entry k shows for membership i.
ShownState(i, k) ==
    IF run.lines[k].icon = "blacklist" THEN "blacklisted-rank"
    ELSE IF run.lines[k].icon = "warning" THEN "ranklock-exceeded"
    ELSE IF run.flags[i].is_watched THEN "watched"
    ELSE "unflagged"

\* C1: a membership is marked as exceeding a rank lock exactly when the
\* subject has a rank lock on its group in this tenant and its rank is
\* strictly greater than the lock's max rank; a rank equal to the max rank,
\* or a group without a lock, is not marked, and the entry's annotation says
\* "exceeds" exactly for the marked ones.
RankLockExceededIffAboveMax ==
    Loaded =>
        \A i \in Members :
            /\ run.flags[i].rl_flag <=> ExceedsLock(i)
            /\ \A k \in Entries(i) :
                /\ run.lines[k].rl_txt.present <=> LocksOf(i) # {}
                /\ run.lines[k].rl_txt.present =>
                      /\ \E r \in LocksOf(i) : run.lines[k].rl_txt.max_rank = r.max_rank_id
                      /\ run.lines[k].rl_txt.status = "exceeds" <=> run.flags[i].rl_flag

\* A report with a membership above its lock's max rank, marked, and a
\* membership at exactly its lock's max rank, not marked.
AboveAndAtMaxReported ==
    /\ Loaded
    /\ \E i \in Members : run.flags[i].rl_flag /\ ExceedsLock(i)
    /\ \E j \in Members :
          /\ ~run.flags[j].rl_flag
          /\ \E r \in LocksOf(j) : r.max_rank_id = run.flags[j].rank_id

\* C2: a membership is marked blacklisted-rank exactly when the tenant has a
\* rank-blacklist rule for its (group, rank), whatever the reason of the rule
\* (a rule without a reason included); with exactly one such membership and
\* no exceeded rank lock the flagged count of the report is 1.
RankRuleMarksMembership ==
    Loaded =>
        /\ \A i \in Members : run.flags[i].is_blacklisted_rank <=> RankRulesOf(i) # {}
        /\ ( /\ Cardinality({i \in Members : RankRulesOf(i) # {}}) = 1
             /\ \A i \in Members : ~ExceedsLock(i) )
           => run.embed.summary.flags = 1

\* C3: every membership has the display state that precedence gives it from
\* the rules: blacklisted-rank if a rank-blacklist rule matches, otherwise
\* ranklock-exceeded if it exceeds a rank lock, otherwise watched if its
\* group is watched, otherwise unflagged; its entry shows that state.
DisplayStateByPrecedence ==
    Loaded =>
        \A i \in Members : \A k \in Entries(i) : ShownState(i, k) = DisplayState(i)

\* C4: a membership has an entry in the membership list if and only if
\* show_all was requested or its display state is not unflagged.
ListedIffShowAllOrFlagged ==
    Loaded =>
        \A i \in Members :
            Entries(i) # {} <=> (run.show_all \/ DisplayState(i) # "unflagged")

\* C5: the summary's total is the number of memberships fetched, its watched
\* count the number of memberships whose group has a watch rule, its flagged
\* count the number of memberships whose display state is blacklisted-rank
\* or ranklock-exceeded (once each); show_all has no part in any of them.
SummaryCountsMemberships ==
    Loaded =>
        /\ run.embed.summary.total = Len(run.groups_sorted)
        /\ Len(run.flags) = Len(run.groups_sorted)
        /\ run.embed.summary.watched = Cardinality({i \in Members : HasWatchRule(i)})
        /\ run.embed.summary.flags =
              Cardinality({i \in Members :
                              DisplayState(i) \in {"blacklisted-rank", "ranklock-exceeded"}})

\* C6: a membership that matches a rank-blacklist rule and exceeds a rank
\* lock has an entry that carries both facts: the blacklist flag with the
\* rule's reason, and the rank-lock annotation with the max rank, "exceeds".
BothFactsOnOneEntry ==
    Loaded =>
        \A i \in Members :
            (RankRulesOf(i) # {} /\ ExceedsLock(i)) =>
                \E k \in Entries(i) :
                    /\ run.lines[k].extra = "BLACKLIST"
                    /\ \E r \in RankRulesOf(i) :
                          run.lines[k].reason = OrElse(r.reason, "rule hit")
                    /\ run.lines[k].rl_txt.present
                    /\ run.lines[k].rl_txt.status = "exceeds"
                    /\ \E r \in LocksOf(i) : run.lines[k].rl_txt.max_rank = r.max_rank_id

\* C7: the report has the blacklisted-user note, with the rule's reason and
\* date, exactly when the tenant has a subject-blacklist rule for the
\* subject; the rule has no part in the memberships: the flagged count and
\* the icon of every entry follow from the rank rules and rank locks alone.
SubjectRuleIsANoteOnly ==
    Loaded =>
        LET bl_notes == {n \in DOMAIN run.embed.notes :
                            run.embed.notes[n].kind = "blacklisted_user"}
        IN
        /\ bl_notes # {} <=> SubjectRules # {}
        /\ Cardinality(bl_notes) <= 1
        /\ \A n \in bl_notes : \E r \in SubjectRules :
              /\ run.embed.notes[n].reason = r.reason
              /\ run.embed.notes[n].since = r.added_at
        /\ run.embed.summary.flags =
              Cardinality({i \in Members :
                              run.flags[i].is_blacklisted_rank \/ run.flags[i].rl_flag})
        /\ \A i \in Members : \A k \in Entries(i) :
              run.lines[k].icon =
                  IF run.flags[i].is_blacklisted_rank THEN "blacklist"
                  ELSE IF run.flags[i].rl_flag THEN "warning"
                  ELSE "ok"

\* A report on a blacklisted subject of a new account whose memberships are
\* all listed and none flagged.
BlacklistedSubjectUnflagged ==
    /\ Loaded
    /\ SubjectRules # {}
    /\ \E n \in DOMAIN run.embed.notes : run.embed.notes[n].kind = "blacklisted_user"
    /\ \E n \in DOMAIN run.embed.notes : run.embed.notes[n].kind = "very_new"
    /\ Len(run.flags) = 2
    /\ run.embed.summary.flags = 0
    /\ \A i \in Members : Entries(i) # {}

\* ------------------------------------------------------------------------
\* The rule tables
\* ------------------------------------------------------------------------

\* At most one row per natural key in every table.
KeysUnique ==
    /\ \A r1, r2 \in watched_groups : WatchKey(r1) = WatchKey(r2) => r1 = r2
    /\ \A r1, r2 \in blacklisted_ranks : BlRankKey(r1) = BlRankKey(r2) => r1 = r2
    /\ \A r1, r2 \in blacklisted_users : BlUserKey(r1) = BlUserKey(r2) => r1 = r2
    /\ \A r1, r2 \in ranklocks : RankLockKey(r1) = RankLockKey(r2) => r1 = r2

\* The step is a set (add / set) of command ev that the store has executed.
SetExecuted(ev) ==
    /\ last'.ev = ev
    /\ last'.req.action \in {"add", "set"}
    /\ last'.call.op = "exec"
    /\ last'.call.res.kind = "status"

\* The row that the request of the step sets.
RowSet ==
    LET req == last'.req IN
    IF last'.ev = "watchgroup"
    THEN [guild_id |-> req.guild_id, group_id |-> req.group_id, label |-> req.label]
    ELSE IF last'.ev = "blacklistrank"
    THEN [guild_id |-> req.guild_id, group_id |-> req.group_id, rank_id |-> req.rank_id,
          reason |-> req.reason, added_by |-> req.stamp.user_id, added_at |-> req.stamp.t]
    ELSE IF last'.ev = "blacklistuser"
    THEN [guild_id |-> req.guild_id, roblox_user_id |-> req.roblox_id,
          reason |-> req.reason, added_by |-> req.stamp.user_id, added_at |-> req.stamp.t]
    ELSE [guild_id |-> req.guild_id, roblox_user_id |-> req.roblox_id,
          group_id |-> req.group_id, max_rank_id |-> req.max_rank_id,
          reason |-> req.reason, set_by |-> req.stamp.user_id, set_at |-> req.stamp.t]

\* A set leaves, under its key, the row of the request alone, and every row
\* of another key, another tenant or another table as it was.
SetReplaces ==
    /\ SetExecuted("watchgroup") =>
          /\ watched_groups' =
                {r \in watched_groups : WatchKey(r) # WatchKey(RowSet)} \cup {RowSet}
          /\ UNCHANGED <<blacklisted_ranks, blacklisted_users, ranklocks>>
    /\ SetExecuted("blacklistrank") =>
          /\ blacklisted_ranks' =
                {r \in blacklisted_ranks : BlRankKey(r) # BlRankKey(RowSet)} \cup {RowSet}
          /\ UNCHANGED <<watched_groups, blacklisted_users, ranklocks>>
    /\ SetExecuted("blacklistuser") =>
          /\ blacklisted_users' =
                {r \in blacklisted_users : BlUserKey(r) # BlUserKey(RowSet)} \cup {RowSet}
          /\ UNCHANGED <<watched_groups, blacklisted_ranks, ranklocks>>
    /\ SetExecuted("ranklock") =>
          /\ ranklocks' =
                {r \in ranklocks : RankLockKey(r) # RankLockKey(RowSet)} \cup {RowSet}
          /\ UNCHANGED <<watched_groups, blacklisted_ranks, blacklisted_users>>

\* C8: whatever sets and removes have been executed, every rule table holds
\* at most one row per natural key; a set for a key that has a row replaces
\* the value fields of that row (label / reason / max rank / setter /
\* timestamp) by those of the call, adds no row, and changes no row of
\* another key or tenant.
OneRowPerKeyLatestWins == []KeysUnique /\ [][SetReplaces]_vars

\* A rank lock has been set a second time: the statement found a row under
\* the key, with another max rank, reason, setter and date, and the table
\* now holds the row of the second call beside the lock of another subject.
RankLockSetTwice ==
    /\ last.ev = "ranklock"
    /\ last.req.action = "set"
    /\ last.call.res.kind = "status"
    /\ \E old \in last.call.res.rows :
          /\ old.max_rank_id # last.req.max_rank_id
          /\ old.reason # last.req.reason
          /\ old.set_by # last.req.stamp.user_id
          /\ old.set_at # last.req.stamp.t
          /\ old \notin ranklocks
    /\ Cardinality(ranklocks) = 2
    /\ \E r \in ranklocks :
          /\ r.roblox_user_id = last.req.roblox_id
          /\ r.max_rank_id = last.req.max_rank_id
          /\ r.set_at = last.req.stamp.t

\* ------------------------------------------------------------------------
\* The store out of reach
\* ------------------------------------------------------------------------

\* The handler has called one of db_exec / db_fetch / db_fetchrow.
StoreCall == last.call.op \in {"exec", "fetch", "fetchrow"}

\* The value a helper returns when ensure_db() has answered False.
DisabledValue(op) ==
    IF op = "fetch" THEN [kind |-> "list", rows |-> {}] ELSE [kind |-> "None", rows |-> {}]

\* C9: when DATABASE_URL is missing, or the creation of the pool or of the
\* tables fails (the handler leaves no pool behind), the store helper the
\* handler calls returns its disabled value - None for db_exec and
\* db_fetchrow, an empty list for db_fetch - and no exception reaches the
\* handler, which replies; the tables stay as they were.
DisabledStoreReturnsDisabledValue ==
    /\ ~DATABASE_URL => db_pool = None
    /\ (StoreCall /\ db_pool = None) =>
          /\ ~last.call.ensured
          /\ last.call.res = DisabledValue(last.call.op)
          /\ last.reply # Unhandled

\* A list of the watched groups while the database, which holds a watch
\* rule of the tenant, is out of reach and there is no pool: the helper
\* has returned the empty list and the handler has replied.
ListedWhileDisabled ==
    /\ last.ev = "watchgroup"
    /\ last.call.op = "fetch"
    /\ db_pool = None
    /\ DATABASE_URL
    /\ ~storeUp
    /\ \E r \in watched_groups : r.guild_id = last.req.guild_id
    /\ last.call.res = [kind |-> "list", rows |-> {}]
    /\ last.reply.msg = "none_set"

\* C10: a /bgcheck without show_all and without include_value that runs
\* while the policy store is out of reach (no DATABASE_URL, or the database
\* down) does not end in an error of the store; its report shows zero flags
\* and zero watched and carries the "DB Status" field.
UnreachableStoreStillReports ==
    ( /\ last.ev = "bgcheck"
      /\ ~last.req.show_all
      /\ ~last.req.include_value
      /\ (~DATABASE_URL \/ ~storeUp) )
    => /\ run.outcome # "StoreError"
       /\ run.outcome = "report" =>
             /\ run.embed.summary.flags = 0
             /\ run.embed.summary.watched = 0
             /\ run.embed.db_status

\* ------------------------------------------------------------------------
\* Retries of http_get / http_post
\* ------------------------------------------------------------------------

\* C14: one call of http_get / http_post issues at most `retries` requests;
\* a request after the first follows a transport failure or a 429 answer to
\* the request before it; an answer with any other status (every 4xx other
\* than 429 included) ends the call at once, which returns that answer.
RetriesOnlyOn429OrFailure ==
    http.pc # "idle" =>
        /\ Len(calls) <= http.retries
        /\ \A k \in DOMAIN calls :
              /\ k > 1 => \/ calls[k - 1].answer.kind = "exception"
                          \/ calls[k - 1].answer.status_code = 429
              /\ ( /\ calls[k].answer.kind = "response"
                   /\ calls[k].answer.status_code # 429 )
                 => /\ k = Len(calls)
                    /\ http.pc = "returned"
                    /\ http.ret = calls[k].answer

\* A call with retries = 3 that met a 429, then a transport failure, then a
\* 404, and returned the 404 after its third request.
ThirdAttemptReturns404 ==
    /\ http.pc = "returned"
    /\ http.retries = 3
    /\ Len(calls) = 3
    /\ calls[1].answer = Response(429)
    /\ calls[2].answer = TransportError
    /\ calls[3].answer = Response(404)
    /\ http.ret = Response(404)

\* ------------------------------------------------------------------------
\* The traversal of one inventory category
\* ------------------------------------------------------------------------

\* The cursors the page source has returned before request k.
ReturnedBefore(k) == {calls[j].next : j \in 1..(k - 1)}

\* Request k was the last one the traversal could issue: its answer was not
\* a 200, or its next cursor was empty or one returned before.
LastPage(k) ==
    \/ calls[k].answer.kind = "exception"
    \/ calls[k].answer.status_code # 200
    \/ ~Truthy(calls[k].next)
    \/ calls[k].next \in ReturnedBefore(k)

\* C15: the traversal of one category issues at most limit_pages page
\* requests; no request follows a page whose next cursor is empty or equal
\* to a cursor returned earlier in the traversal (nor a page that failed),
\* and after such a page the function has returned; the traversal always
\* returns, whatever the page source answers.
TraversalBoundedAndEnds ==
    /\ [](inv.pc # "idle" =>
            /\ Len(calls) <= inv.limit_pages
            /\ \A k \in DOMAIN calls :
                  LastPage(k) => (k = Len(calls) /\ inv.pc = "returned"))
    /\ <>[](inv.pc = "returned")

\* A traversal with limit_pages = 4 whose page source returned the cursor
\* "a" twice: it returned after the second request, with the items of both.
SameCursorTwiceStops ==
    /\ inv.pc = "returned"
    /\ inv.limit_pages = 4
    /\ Len(calls) = 2
    /\ calls[1].next = "a"
    /\ calls[2].next = "a"
    /\ inv.ret.asset_ids = <<1, 2, 1, 2>>

\* ------------------------------------------------------------------------
\* The valuation
\* ------------------------------------------------------------------------

\* The pricing calls of the run, by their position in the log.
PriceCalls == {k \in DOMAIN calls : calls[k].svc = "price"}
\* The inventory requests of the run.
InventoryCalls == {k \in DOMAIN calls : calls[k].svc = "inventory"}
\* The distinct identifiers the scan has found.
FoundIds == {est.all_assets[k] : k \in DOMAIN est.all_assets}

\* clamp(m, 30, 300), spelled out.
SampleCap(m) == IF m < 30 THEN 30 ELSE IF m > 300 THEN 300 ELSE m

\* C18: whatever max_assets_to_price the caller gives, the cap is its clamp
\* to 30..300; the pricing calls never exceed 300, and a run that was not
\* blocked has priced min(distinct identifiers found, cap) items when it
\* returns.
SampleSizeIsClampedCap ==
    est.pc # "idle" =>
        /\ est.max_assets_to_price = SampleCap(est.given)
        /\ est.max_assets_to_price >= 30
        /\ Cardinality(PriceCalls) <= 300
        /\ (est.pc = "returned" /\ ~est.ret.inventory_private) =>
              Cardinality(PriceCalls)
                  = Min(Cardinality(FoundIds), SampleCap(est.given))

\* A run given max_assets_to_price = 0 that found 31 identifiers and priced
\* 30 of them.
ThirtyOfThirtyOnePriced ==
    /\ est.pc = "returned"
    /\ est.given = 0
    /\ Cardinality(FoundIds) = 31
    /\ Cardinality(PriceCalls) = 30
    /\ est.ret.priced_assets = 30

\* ------------------------------------------------------------------------
\* The run of /bgcheck against its log of requests
\* ------------------------------------------------------------------------

\* A run is under way / has just ended.
Running == task.pc # "idle"
RunOver == task.pc = "idle" /\ last.ev = "bgcheck"

\* How many of discord_user, roblox_id, username the caller supplied.
Supplied(req) ==
    (IF req.discord_user # NoInt THEN 1 ELSE 0)
    + (IF req.roblox_id # NoInt THEN 1 ELSE 0)
    + (IF Truthy(req.username) THEN 1 ELSE 0)

\* C11: a background check called with none or with more than one of
\* discord_user, roblox_id, username asks no lookup service, resolves no
\* subject, and ends with the invalid-input message ("Provide discord_user
\* OR roblox_id OR username"), not with a report.
ExactlyOneIdentityInput ==
    /\ (Running /\ Supplied(task.req) # 1) =>
          /\ task.target_roblox_id = NoInt
          /\ calls = <<>>
    /\ (RunOver /\ Supplied(last.req) # 1) =>
          /\ run.outcome = "provide_one"
          /\ calls = <<>>

\* The calls of the log to one service.
CallsTo(svcs) == {k \in DOMAIN calls : calls[k].svc \in svcs}

\* The answer is not a 200: another status (a 429 after the last retry
\* included) or a transport failure.
NotOk(answer) == answer.kind = "exception" \/ answer.status_code # 200

\* C12: a run in which the profile service or the membership service
\* failed (non-200, or retries exhausted) ends with an error and without a
\* report; no report shows zero memberships because the fetch failed.
ServiceFailureAborts ==
    /\ (RunOver /\ \E k \in CallsTo({"profile", "groups"}) : NotOk(calls[k].answer)) =>
          run.outcome = "RuntimeError"
    /\ (RunOver /\ run.outcome = "report") =>
          ~(run.fetched = "failed" /\ run.embed.summary.total = 0)

\* The phase a request belongs to: identity, profile / membership, rules,
\* valuation.
PhaseOf(svc) ==
    IF svc \in {"rover", "usernames"} THEN 1
    ELSE IF svc \in {"profile", "groups"} THEN 2
    ELSE IF svc = "store" THEN 3
    ELSE 4

\* The lookup of an identity call gave no subject.
NoSubject(c) ==
    IF c.svc = "rover" THEN c.answer.kind = "exception" \/ DiscordToRoblox(c.answer) \in {NoInt, 0}
    ELSE UsernameToRoblox(c.answer) \in {NoInt, 0}

\* The request of the run under way or just ended.
RunReq == IF Running THEN task.req ELSE last.req

\* C13: the requests of one run are made in phase order - identity lookup,
\* then profile and membership, then the rules, then inventory and
\* pricing; the rules are read only after the membership fetch, inventory
\* and pricing only after the flagging; an identity lookup that gives no
\* subject is the last request of its run; a run without include_value
\* makes no inventory or pricing request.
RequestsInPhaseOrder ==
    /\ \A j, k \in DOMAIN calls :
          j < k => PhaseOf(calls[j].svc) <= PhaseOf(calls[k].svc)
    /\ \A j, k \in DOMAIN calls :
          (j < k /\ calls[k].svc = "profile") => calls[j].svc # "groups"
    /\ Running =>
          /\ task.pc = "identity" => calls = <<>>
          /\ task.pc \in {"profile", "groups", "rules"} =>
                CallsTo({"store", "inventory", "price"}) = {}
          /\ task.pc \in {"flag", "value"} =>
                /\ CallsTo({"groups"}) # {}
                /\ CallsTo({"inventory", "price"}) = {}
    /\ \A k \in CallsTo({"rover", "usernames"}) :
          NoSubject(calls[k]) => k = Len(calls)
    /\ ((Running \/ RunOver) /\ ~RunReq.include_value) =>
          CallsTo({"inventory", "price"}) = {}

\* A report with valuation for a Discord member: RoVer, the profile, the
\* memberships, the rules, the inventory and a price have been asked.
FullRunAsksEveryPhase ==
    /\ RunOver
    /\ run.outcome = "report"
    /\ \A s \in {"rover", "profile", "groups", "store", "inventory", "price"} :
          CallsTo({s}) # {}

\* ------------------------------------------------------------------------
\* The estimate against its log of requests
\* ------------------------------------------------------------------------

\* The answer closes the inventory to the caller.
Closed(answer) == answer.kind = "response" /\ answer.status_code \in {401, 403}

\* C16: an inventory request answered 401 or 403, on any page of any
\* category, is the last request of the estimate - no later category is
\* scanned and nothing is priced - and the estimate returns with
\* inventory_private true, no value and priced_assets 0.
BlockedStopsAtOnce ==
    \A k \in InventoryCalls :
        Closed(calls[k].answer) =>
            /\ k = Len(calls)
            /\ PriceCalls = {}
            /\ est.pc \in {"fetch", "phase2", "returned"}
            /\ est.pc = "returned" =>
                  /\ est.ret.inventory_private
                  /\ est.ret.est_value_robux = NoInt
                  /\ est.ret.priced_assets = 0

\* The estimate has returned private after the first category gave items
\* and a second page, and the second category answered 401.
ClosedAtSecondCategory ==
    /\ est.pc = "returned"
    /\ est.ret.inventory_private
    /\ est.all_assets # <<>>
    /\ Len(calls) = 3
    /\ calls[3].type = ASSET_TYPES[2]
    /\ calls[3].answer = Response(401)

\* C17: no two pricing requests of one estimate are for the same item
\* identifier, whether the identifier was listed twice by one category or
\* by two categories.
EachIdPricedOnce ==
    \A j, k \in PriceCalls : j # k => calls[j].aid # calls[k].aid

\* How often the scan found an identifier.
Listed(aid) == Cardinality({k \in DOMAIN est.all_assets : est.all_assets[k] = aid})

\* The estimate has returned after item 1 was listed twice by the first
\* category and item 2 by the first and the second, with three pricing
\* requests.
TwiceListedPricedOnce ==
    /\ est.pc = "returned"
    /\ Listed(1) >= 2
    /\ Listed(2) >= 2
    /\ Listed(3) = 1
    /\ Cardinality(PriceCalls) = 3

\* What the pricing request k gave: the price, or NoInt.
Given(k) == EconomyAssetPrice(calls[k].answer, calls[k].halves)

\* The pricing requests that returned a positive price.
PositivelyPriced == {k \in PriceCalls : Given(k) > 0}

RECURSIVE SumGiven(_)
SumGiven(S) ==
    IF S = {} THEN 0
    ELSE LET k == CHOOSE x \in S : TRUE IN Given(k) + SumGiven(S \ {k})

\* The notes hold one of the caveats.
HasCaveat(notes) ==
    \E n \in DOMAIN notes : notes[n] \in {"no_items_found", "no_prices_read"}

\* C19: an estimate that returns without a privacy block has priced_assets
\* equal to the number of sampled items whose pricing request returned a
\* positive price and est_value equal to the sum of those prices; when
\* there is no such item est_value is null, never 0, and the notes hold a
\* caveat.
ValueIsSumOfPositivePrices ==
    (est.pc = "returned" /\ ~est.ret.inventory_private) =>
        /\ est.ret.priced_assets = Cardinality(PositivelyPriced)
        /\ PositivelyPriced # {} =>
              est.ret.est_value_robux = SumGiven(PositivelyPriced)
        /\ PositivelyPriced = {} =>
              /\ est.ret.est_value_robux = NoInt
              /\ HasCaveat(est.ret.notes)
        /\ est.ret.est_value_robux # 0

\* C20: the percentages handed to the progress callback during one check
\* with include_value never decrease, and the last one is 100 when the
\* estimate returns and when the check ends - whether the inventory was
\* closed, empty, or priced, and whatever the number of sampled items.
ProgressNeverDecreasesEndsAt100 ==
    /\ \A j, k \in DOMAIN emitted : j < k => emitted[j] <= emitted[k]
    /\ \A k \in DOMAIN emitted : emitted[k] \in 0..100
    /\ (Running /\ task.pc \in {"valuing", "embed"}) => emitted[1] = 0
    /\ est.pc = "returned" => emitted[Len(emitted)] = 100
    /\ (RunOver /\ run.outcome = "report") =>
          /\ Len(emitted) >= 3
          /\ emitted[Len(emitted)] = 100

\* A check has ended whose estimate priced 110 items: the callback was
\* handed 0, the twelve steps of the scan up to 36, the steps of the
\* pricing (69 at item 60 of 110, 95 at the last), 100 and 100.
HundredTenItemsReported ==
    /\ RunOver
    /\ run.outcome = "report"
    /\ run.embed.value.priced_assets = 1
    /\ Cardinality(PriceCalls) = 110
    /\ \E k \in DOMAIN emitted : emitted[k] = 36
    /\ \E k \in DOMAIN emitted : emitted[k] = 69
    /\ \E k \in DOMAIN emitted : emitted[k] = 95
    /\ emitted[Len(emitted) - 1] = 100

\* ------------------------------------------------------------------------
\* The waits of http_get / http_post
\* ------------------------------------------------------------------------

\* C23: the wait that follows the k-th attempt (k = 1, 2, ...) of one call
\* of http_get / http_post, when that attempt received a 429, is
\* min(2 * k, 6) seconds: 2, 4, 6, 6, ..., never more than 6.
WaitAfter429IsCappedLinear ==
    /\ Len(http.slept) <= Len(calls)
    /\ \A k \in DOMAIN http.slept :
          (calls[k].answer.kind = "response" /\ calls[k].answer.status_code = 429) =>
              /\ calls[k].attempt = k - 1
              /\ http.slept[k] = (IF 2 * k <= 6 THEN 2 * k ELSE 6)
              /\ http.slept[k] <= 6

\* Four attempts of one call received 429: the waits were 2, 4, 6, 6.
Four429sWaited ==
    /\ http.pc = "returned"
    /\ http.retries = 4
    /\ http.slept = <<2, 4, 6, 6>>
    /\ http.ret = Response(429)

\* ------------------------------------------------------------------------
\* The outcome of a fetch
\* ------------------------------------------------------------------------

\* The attempts of the log since the last inventory entry before place n.
AttemptsBefore(n) ==
    {k \in 1..(n - 1) :
        /\ calls[k].svc = "http"
        /\ \A j \in (k + 1)..(n - 1) : calls[j].svc = "http"}

\* What http_get gave for attempts that end at place n - 1 of the log:
\* a response that is not a 429 as soon as it arrives; the last 429, or
\* the exception of the last attempt, after `retries` attempts.
OutcomeTellsFailure(n, ret, retries) ==
    LET final == calls[n - 1].answer IN
    /\ AttemptsBefore(n) # {}
    /\ ret = final
    /\ (final.kind = "exception" \/ final.status_code = 429) =>
          Cardinality(AttemptsBefore(n)) = retries
    /\ \A k \in AttemptsBefore(n) \ {n - 1} :
          calls[k].answer.kind = "exception" \/ calls[k].answer.status_code = 429

\* C24: http_get returns the response itself for a status it does not
\* retry, the last 429 response when rate limiting used up the retries,
\* and the exception when the transport failure of the last attempt did;
\* the traversal of a category turns these into (no item list, 401 / 403),
\* (items collected so far, 429) and (items collected so far, no status),
\* three results that differ.
FetchOutcomesDiffer ==
    /\ (http.pc = "returned" /\ inv.pc = "loop") =>
          OutcomeTellsFailure(Len(calls) + 1, http.ret, InvRetries)
    /\ \A n \in InventoryCalls :
          OutcomeTellsFailure(n, calls[n].answer, InvRetries)
    /\ (inv.pc = "returned" /\ calls # <<>>) =>
          LET r == calls[Len(calls)].answer IN
          /\ (r.kind = "response" /\ r.status_code \in {401, 403}) =>
                inv.ret.is_none /\ inv.ret.status = r.status_code
          /\ (r.kind = "response" /\ r.status_code = 429) =>
                /\ ~inv.ret.is_none
                /\ inv.ret.asset_ids = inv.asset_ids
                /\ inv.ret.status = 429
          /\ r.kind = "exception" =>
                /\ ~inv.ret.is_none
                /\ inv.ret.asset_ids = inv.asset_ids
                /\ inv.ret.status = NoInt

\* The first page gave two items and a cursor; the three attempts for the
\* second page received 429: the traversal returned the two items and 429.
RateLimitedAtSecondPage ==
    /\ inv.pc = "returned"
    /\ Len(calls) = 6
    /\ calls[2].svc = "inventory"
    /\ \A k \in 3..5 : calls[k].answer = Response(429)
    /\ inv.ret = InvResult(FALSE, <<1, 2>>, 429)

\* ------------------------------------------------------------------------
\* Concurrent calls of ensure_db
\* ------------------------------------------------------------------------

\* C25: whenever ensure_db has returned True to a coroutine, db_pool is
\* not null at that moment, so that no `assert db_pool is not None` of a
\* helper fails - in every interleaving and under every pattern of
\* failures of create_pool and of the table creation.
EnsuredMeansPoolPresent ==
    \A t \in Tasks :
        /\ task[t].ret = "True" => task[t].seen # None
        /\ task[t].outcome # "AssertionError"

\* The pools that db_pool or a running coroutine holds.
PoolsInUse ==
    ({db_pool} \cup {task[t].pool : t \in Tasks}) \ {None}

\* C26: however the coroutines that call ensure_db interleave, at most one
\* pool is in use: db_pool is never given a second pool while a coroutine
\* still works on the first.
AtMostOnePoolInUse == Cardinality(PoolsInUse) <= 1

\* ------------------------------------------------------------------------
\* The success message of the commands that store a rule
\* ------------------------------------------------------------------------

\* C27: after a command that stores a rule (/watchgroup add,
\* /blacklistrank add, /blacklistuser add, /ranklock set) has replied with
\* its success message, the store holds the rule under the key of the
\* request, so that a list / check / view of the tenant returns it.
SuccessMessageMeansStored ==
    /\ (last.ev = "watchgroup" /\ last.reply.msg = "watch_added") =>
          \E r \in watched_groups :
              r.guild_id = last.req.guild_id /\ r.group_id = last.req.group_id
    /\ (last.ev = "blacklistrank" /\ last.reply.msg = "blrank_added") =>
          \E r \in blacklisted_ranks :
              /\ r.guild_id = last.req.guild_id
              /\ r.group_id = last.req.group_id
              /\ r.rank_id = last.req.rank_id
    /\ (last.ev = "blacklistuser" /\ last.reply.msg = "bluser_added") =>
          \E r \in blacklisted_users :
              r.guild_id = last.req.guild_id /\ r.roblox_user_id = last.req.roblox_id
    /\ (last.ev = "ranklock" /\ last.reply.msg = "ranklock_set") =>
          \E r \in ranklocks :
              /\ r.guild_id = last.req.guild_id
              /\ r.roblox_user_id = last.req.roblox_id
              /\ r.group_id = last.req.group_id

\* ------------------------------------------------------------------------
\* The relay of the progress
\* ------------------------------------------------------------------------

\* The calls of progress_cb that reached the send or the edit.
Relayed == {k \in DOMAIN calls : calls[k].svc = "progress" /\ calls[k].relayed}

\* Two relayed calls with no relayed call between them.
Consecutive(j, k) ==
    /\ j \in Relayed
    /\ k \in Relayed
    /\ j < k
    /\ \A i \in Relayed : ~(j < i /\ i < k)

\* C21: any two consecutive progress updates of one run that are relayed
\* to the channel (a send or an edit) are at least 1.25 seconds apart.
RelayedAtLeastIntervalApart ==
    \A j, k \in DOMAIN calls :
        Consecutive(j, k) => calls[k].at - calls[j].at >= MinInterval

\* C22: every call of progress_cb with percent = 100 reaches the send or
\* the edit, however short the time since the last relayed update; the
\* calls that are dropped all have a percentage below 100.
HundredAlwaysRelayed ==
    \A k \in DOMAIN calls :
        calls[k].svc = "progress" =>
            /\ calls[k].percent = 100 => calls[k].relayed /\ calls[k].op \in {"send", "edit"}
            /\ ~calls[k].relayed => calls[k].percent < 100

\* The run is over: 0 was sent, 36 came a second later and was dropped,
\* and the two calls with 100 were relayed although no time had passed
\* since the call before.
HundredRelayedAfterDrop ==
    /\ task.pc = "done"
    /\ Len(calls) = 4
    /\ calls[2].percent = 36
    /\ ~calls[2].relayed
    /\ calls[3].at = calls[2].at
    /\ calls[3].relayed
    /\ calls[4].at = calls[3].at
    /\ calls[4].relayed

====
